---- MODULE Spec2Model ----
(***************************************************************************)
(* Sprite_Splitter_Pro: the pixel pipeline of utils/spriteLogic.ts,        *)
(* utils/gifProcessor.ts and utils/videoProcessor.ts as state machines.    *)
(*                                                                         *)
(* A pixel is <<rgb, alpha>>: rgb stands for the three colour bytes, alpha *)
(* is the alpha byte.  A raster is a function from <<x, y>> to pixels.     *)
(***************************************************************************)
EXTENDS Integers, Sequences, FiniteSets, TLC

VARIABLES
    \* ---- processGifFile (gifProcessor.ts) ----
    gifPc,          \* "read" | "loop" | "done"
    lsd,            \* gif.lsd: [width, height], the logical screen
    frames,         \* decompressFrames(gif, true)
    surfaces,       \* which getContext('2d') calls succeed: [sheet, render, patch]
    gifGrid,        \* [frameCount, columns, rows]
    gifI,           \* forEach index i of the next frame to handle
    renderCanvas,   \* the render buffer
    sheetCanvas,    \* the sprite sheet
    atComposite,    \* history: the render buffer at the moment the last patch was drawn
    composited,     \* history: the render buffer right after each frame was composited
    placed,         \* history: the <<x, y>> of each sheetCtx.drawImage
    gifPromise,     \* [state: "pending" | "resolved" | "rejected", value]
    \* ---- processVideoFile (videoProcessor.ts) ----
    vPc,            \* "start" | "probe" | "wait" | "done": where onloadedmetadata is
    vMeta,          \* the video: [width, height, duration: [inf, ms]], and the
                    \* duration it reports after the probing seek
    fps,
    vCtx,           \* canvas.getContext('2d') returns a context
    duration,       \* the local `duration`, in ms
    vGrid,          \* [frameCount, columns, rows]
    currentFrame,
    outstanding,    \* seeks set on video.currentTime whose 'seeked' is not yet dispatched
    listeners,      \* the sample numbers whose onSeek listener is registered
    timers,         \* the sample numbers whose 1 s timeout is armed
    head,           \* the picture the video element currently shows
    draws,          \* the ctx.drawImage calls so far
    issued,         \* history: every seek set on video.currentTime
    released,       \* cleanup() has run
    cleanups,       \* how many times cleanup() has run
    vErrored,       \* the video error event has fired
    vPromise,
    \* ---- processVideoFile, lines 86-91 alone ----
    vsDuration,     \* the resolved duration, in ms
    vsFps,
    vsFrameCount,   \* frameCount, 0 before it is computed
    \* ---- sliceImage (spriteLogic.ts) ----
    slPc,           \* "loading" | "done"
    img,            \* the decoded image: [width, height]
    settings,       \* GridSettings: [rows, columns, imageWidth, imageHeight]
    slColor,        \* colorSettings?.enabled
    slCtx,          \* which getContext('2d') calls succeed: [full, frame]
    fullCanvas,     \* [width, height, mapped]: the resized image
    slPromise,
    \* ---- applyGradientMap (spriteLogic.ts) ----
    gmPc,           \* "ready" | "done"
    imageData,      \* imageData.data: a sequence of <<r, g, b, a>>
    colorSettings,  \* [enabled, stops]; a stop is [offset, color]
    original,       \* history: imageData.data before the call
    \* ---- generateGradientLUT (spriteLogic.ts) ----
    lutPc,          \* "ready" | "done"
    lutStops,       \* the stops argument
    lutOut,         \* what the call produced: a table, or what it threw
    \* ---- getTrimmedData (spriteLogic.ts) ----
    trPc,           \* "loading" | "done" | "failed"
    trImg,          \* the decoded image: [width, height, opaque]
    trCtx,          \* which getContext('2d') calls return a context
    trOut,          \* the returned promise
    \* ---- SplitterWorkspace: the gradient stop list ----
    stStops,        \* colorSettings.stops, the committed state
    stRendered,     \* colorSettings.stops as the rendered handlers see it
    stQueue,        \* updaters passed to setColorSettings, not yet applied
    stClock,        \* Date.now()
    \* ---- the sheet grid of a frame count (videoProcessor.ts, gifProcessor.ts) ----
    lyPc,           \* "idle" | "ready" | "done"
    lyCount,        \* frameCount
    lyGrid,         \* [columns, rows], or None before it is computed
    \* ---- SplitterWorkspace: the grid settings ----
    edImage,        \* the image prop: [width, height, suggestedRows, suggestedColumns]
    edSettings,     \* settings: [rows, columns, imageWidth, imageHeight]
    edLocked,       \* aspectRatioLocked
    edRatio,        \* originalAspectRatio as <<numerator, denominator>>
    edLast,         \* history: the last edit, [field, value, changed]
    \* ---- SplitterWorkspace: the preview canvas ----
    pvPc,           \* "idle" | "loading" | "drawn"
    pvFrameDim,     \* frameDimensions: [w, h]
    pvLines,        \* the grid lines stroked: [xs, ys]
    \* ---- AnimationPreview ----
    apLen,          \* frames.length of the frames prop
    apIndex,        \* currentFrameIndex
    apPlaying,      \* isPlaying
    apFps,          \* fps
    apTimer,        \* frames.length captured by the running interval, 0 when none runs
    apDeps,         \* the dependencies at the last run of the effects
    apPending,      \* a render is committed and its effects have not run yet
    apRendered,     \* history: the last render, [len, index]
    \* ---- SplitterWorkspace: the debounced split ----
    spLog,          \* history: the changes of settings, colorSettings and image so far
    spTimer,        \* the pending debounce timer: the version its handleSplit closes over
    spSlices,       \* the versions whose sliceImage call is in flight
    spFailed,       \* the versions whose sliceImage call rejected
    spDelivered     \* the versions passed to onFramesGenerated, in order

gifVars == <<gifPc, lsd, frames, surfaces, gifGrid, gifI, renderCanvas,
             sheetCanvas, atComposite, composited, placed, gifPromise>>

videoVars == <<vPc, vMeta, fps, vCtx, duration, vGrid, currentFrame, outstanding,
               listeners, timers, head, draws, issued, released, cleanups,
               vErrored, vPromise>>

countVars == <<vsDuration, vsFps, vsFrameCount>>

sliceVars == <<slPc, img, settings, slColor, slCtx, fullCanvas, slPromise>>

gradVars == <<gmPc, imageData, colorSettings, original>>

lutVars == <<lutPc, lutStops, lutOut>>

trimVars == <<trPc, trImg, trCtx, trOut>>

stopVars == <<stStops, stRendered, stQueue, stClock>>

layoutVars == <<lyPc, lyCount, lyGrid>>

editVars == <<edImage, edSettings, edLocked, edRatio, edLast>>

previewVars == <<pvPc, pvFrameDim, pvLines>>

animVars == <<apLen, apIndex, apPlaying, apFps, apTimer, apDeps, apPending, apRendered>>

splitVars == <<spLog, spTimer, spSlices, spFailed, spDelivered>>

vars == <<gifVars, videoVars, countVars, sliceVars, gradVars, lutVars,
          trimVars, stopVars, layoutVars, editVars, previewVars, animVars,
          splitVars>>

\* what each job leaves alone: the state of the other jobs
notGif == <<videoVars, countVars, sliceVars, gradVars, lutVars, trimVars, stopVars,
    layoutVars,
    editVars,
    previewVars,
    animVars,
    splitVars>>
notVideo == <<gifVars, countVars, sliceVars, gradVars, lutVars, trimVars, stopVars,
    layoutVars,
    editVars,
    previewVars,
    animVars,
    splitVars>>
notCount == <<gifVars, videoVars, sliceVars, gradVars, lutVars, trimVars, stopVars,
    layoutVars,
    editVars,
    previewVars,
    animVars,
    splitVars>>
notSlice == <<gifVars, videoVars, countVars, gradVars, lutVars, trimVars, stopVars,
    layoutVars,
    editVars,
    previewVars,
    animVars,
    splitVars>>
notLut == <<gifVars, videoVars, countVars, sliceVars, gradVars, trimVars, stopVars,
    layoutVars,
    editVars,
    previewVars,
    animVars,
    splitVars>>
notTrim == <<gifVars, videoVars, countVars, sliceVars, gradVars, lutVars, stopVars,
    layoutVars,
    editVars,
    previewVars,
    animVars,
    splitVars>>
notStops == <<gifVars, videoVars, countVars, sliceVars, gradVars, lutVars, trimVars,
    layoutVars,
    editVars,
    previewVars,
    animVars,
    splitVars>>
notGrad == <<gifVars, videoVars, countVars, sliceVars, lutVars, trimVars, stopVars,
    layoutVars,
    editVars,
    previewVars,
    animVars,
    splitVars>>
notLayout == <<gifVars, videoVars, countVars, sliceVars, gradVars, lutVars,
    trimVars, stopVars,
    editVars,
    previewVars,
    animVars,
    splitVars>>
notEdit == <<gifVars, videoVars, countVars, sliceVars, gradVars, lutVars,
    trimVars, stopVars, layoutVars,
    previewVars,
    animVars,
    splitVars>>
notPreview == <<gifVars, videoVars, countVars, sliceVars, gradVars, lutVars,
    trimVars, stopVars, layoutVars, editVars,
    animVars,
    splitVars>>
notAnim == <<gifVars, videoVars, countVars, sliceVars, gradVars, lutVars,
    trimVars, stopVars, layoutVars, editVars, previewVars,
    splitVars>>
notSplit == <<gifVars, videoVars, countVars, sliceVars, gradVars, lutVars,
    trimVars, stopVars, layoutVars, editVars, previewVars, animVars>>

\* ------------------------------------------------------------------------
\* Bounds of the model
\* ------------------------------------------------------------------------
MaxGifFrames == 3
ScreenW == 3
ScreenH == 2
MaxSamples == 6
MaxQuarterSeconds == 60
MaxFps == 30
MaxSide == 5
MaxGrid == 3
MaxPixels == 2
MaxStops == 3
MaxTrimSide == 3
MaxStopCount == 3
MaxQueued == 2
MaxClock == 4

\* ------------------------------------------------------------------------
\* Arithmetic helpers
\* ------------------------------------------------------------------------
Min(a, b) == IF a <= b THEN a ELSE b
Max(a, b) == IF a >= b THEN a ELSE b

RECURSIVE FloorSqrtFrom(_, _)
FloorSqrtFrom(n, c) == IF (c + 1) * (c + 1) > n THEN c ELSE FloorSqrtFrom(n, c + 1)

FloorSqrt(n) == FloorSqrtFrom(n, 0)

RECURSIVE CeilSqrtFrom(_, _)
CeilSqrtFrom(n, c) == IF c * c >= n THEN c ELSE CeilSqrtFrom(n, c + 1)

\* Math.ceil(Math.sqrt(n)) for an integer n >= 0
CeilSqrt(n) == CeilSqrtFrom(n, 0)

\* Math.ceil(a / b) for integers a >= 0, b >= 1
FloorDiv(a, b) == a \div b

CeilDiv(a, b) == (a + b - 1) \div b

\* ------------------------------------------------------------------------
\* Canvas primitives
\* ------------------------------------------------------------------------
Clear == <<0, 0>>

Coords(w, h) == (0 .. w - 1) \X (0 .. h - 1)

\* a freshly created canvas: transparent black
NewCanvas(w, h) == [p \in Coords(w, h) |-> Clear]

\* renderCtx.clearRect(0, 0, width, height)
ClearRect(canvas, w, h) ==
    [p \in DOMAIN canvas |->
        IF p[1] < w /\ p[2] < h THEN Clear ELSE canvas[p]]

Overwrite(src, dst) == src

\* the default globalCompositeOperation of drawImage, for alpha 0 or 255
SourceOver(src, dst) == IF src[2] = 255 THEN src ELSE dst

\* ctx.drawImage(src, dx, dy): src is drawn with source-over, clipped to dst
DrawImage(dst, src, dx, dy) ==
    [p \in DOMAIN dst |->
        LET q == <<p[1] - dx, p[2] - dy>>
        IN  IF q \in DOMAIN src THEN SourceOver(src[q], dst[p]) ELSE dst[p]]

\* ctx.drawImage(src, 0, 0, w, h, dx, dy, w, h)
DrawImageRect(dst, src, w, h, dx, dy) ==
    [p \in DOMAIN dst |->
        LET q == <<p[1] - dx, p[2] - dy>>
        IN  IF q \in DOMAIN src /\ q[1] < w /\ q[2] < h
            THEN SourceOver(src[q], dst[p]) ELSE dst[p]]

\* a canvas stores premultiplied colour: a pixel of alpha 0 is transparent black
PutPixel(px) == IF px[2] = 0 THEN Clear ELSE px

\* new ImageData(new Uint8ClampedArray(frame.patch), w, h) put on the patch canvas
PatchCanvas(frame) ==
    [p \in Coords(frame.dims.width, frame.dims.height) |->
        PutPixel(frame.patch[p[2] * frame.dims.width + p[1] + 1])]

\* ------------------------------------------------------------------------
\* processGifFile: inputs
\* ------------------------------------------------------------------------
\* gifuct-js disposal codes: 1 draw over, 2 restore to background, 3 restore
\* to previous
DisposalTypes == {1, 2, 3}

\* which pixels of a patch are opaque: all, or every other one
IsOpaque(kind, x, y) ==
    IF kind = "all" THEN TRUE
    ELSE IF kind = "even" THEN (x + y) % 2 = 0
    ELSE (x + y) % 2 = 1

\* a patch of w x h whose pixel k (row-major) is opaque or the transparent
\* colour index
MakePatch(w, h, colour, kind) ==
    [k \in 1 .. w * h |->
        IF IsOpaque(kind, (k - 1) % w, (k - 1) \div w)
        THEN <<colour, 255>> ELSE <<colour, 0>>]

\* the patches frame number n may carry; frame n paints in colour n
PatchesOf(n) ==
    { \* the top-left quadrant
      [dims |-> [left |-> 0, top |-> 0,
                 width |-> CeilDiv(ScreenW, 2), height |-> CeilDiv(ScreenH, 2)],
       patch |-> MakePatch(CeilDiv(ScreenW, 2), CeilDiv(ScreenH, 2), n, "all")],
      \* from the centre, reaching past the right and bottom edges of the
      \* screen, every other pixel the transparent colour index
      [dims |-> [left |-> ScreenW \div 2, top |-> ScreenH \div 2,
                 width |-> ScreenW, height |-> ScreenH],
       patch |-> MakePatch(ScreenW, ScreenH, n, "odd")],
      \* the whole screen, every other pixel the transparent colour index
      [dims |-> [left |-> 0, top |-> 0, width |-> ScreenW, height |-> ScreenH],
       patch |-> MakePatch(ScreenW, ScreenH, n, "even")],
      \* an empty image descriptor
      [dims |-> [left |-> 0, top |-> 0, width |-> 0, height |-> 0],
       patch |-> <<>>] }

FramesOf(n) ==
    { [disposalType |-> d, dims |-> p.dims, patch |-> p.patch] :
        d \in DisposalTypes, p \in PatchesOf(n) }

RECURSIVE FrameLists(_)
FrameLists(n) ==
    IF n = 0 THEN {<<>>}
    ELSE { Append(fs, f) : fs \in FrameLists(n - 1), f \in FramesOf(n) }

GifInputs == UNION { FrameLists(n) : n \in 0 .. MaxGifFrames }

\* which of the three getContext('2d') calls return a context
SurfaceCases ==
    { [sheet |-> TRUE, render |-> TRUE, patch |-> TRUE],
      [sheet |-> TRUE, render |-> TRUE, patch |-> FALSE],
      [sheet |-> TRUE, render |-> FALSE, patch |-> TRUE],
      [sheet |-> FALSE, render |-> TRUE, patch |-> TRUE] }

Pending == [state |-> "pending", value |-> <<>>]
Rejected(msg) == [state |-> "rejected", value |-> msg]
Resolved(v) == [state |-> "resolved", value |-> v]

\* ------------------------------------------------------------------------
\* processGifFile: operations
\* ------------------------------------------------------------------------
GifInit ==
    /\ gifPc = "read"
    /\ lsd = [width |-> ScreenW, height |-> ScreenH]
    /\ frames \in GifInputs
    /\ surfaces \in SurfaceCases
    /\ gifGrid = [frameCount |-> 0, columns |-> 0, rows |-> 0]
    /\ gifI = 0
    /\ renderCanvas = <<>>
    /\ sheetCanvas = <<>>
    /\ atComposite = <<>>
    /\ composited = <<>>
    /\ placed = <<>>
    /\ gifPromise = Pending

GifIdle ==
    /\ gifPc = "idle"
    /\ lsd = [width |-> 0, height |-> 0]
    /\ frames = <<>>
    /\ surfaces = [sheet |-> TRUE, render |-> TRUE, patch |-> TRUE]
    /\ gifGrid = [frameCount |-> 0, columns |-> 0, rows |-> 0]
    /\ gifI = 0
    /\ renderCanvas = <<>>
    /\ sheetCanvas = <<>>
    /\ atComposite = <<>>
    /\ composited = <<>>
    /\ placed = <<>>
    /\ gifPromise = Pending

\* Calculate Grid
GridOf(frameCount) ==
    LET columns == CeilSqrt(frameCount)
    IN  [frameCount |-> frameCount, columns |-> columns,
         rows |-> CeilDiv(frameCount, columns)]

\* reader.onload, up to the forEach: parse, lay out the sheet, create canvases
GifOnLoad ==
    /\ gifPc = "read"
    /\ IF Len(frames) = 0 \/ ~surfaces.sheet \/ ~surfaces.render
       THEN /\ gifPc' = "done"
            /\ gifPromise' = Rejected("Failed to parse GIF. It might be corrupted or unsupported.")
            /\ UNCHANGED <<gifGrid, renderCanvas, sheetCanvas>>
       ELSE LET g == GridOf(Len(frames))
            IN  /\ gifPc' = "loop"
                /\ gifGrid' = g
                /\ sheetCanvas' = NewCanvas(g.columns * lsd.width, g.rows * lsd.height)
                /\ renderCanvas' = NewCanvas(lsd.width, lsd.height)
                /\ UNCHANGED gifPromise
    /\ UNCHANGED <<lsd, frames, surfaces, gifI, atComposite, composited, placed>>
    /\ UNCHANGED notGif

\* reader.onerror
GifOnError ==
    /\ gifPc = "read"
    /\ gifPc' = "done"
    /\ gifPromise' = Rejected("Failed to read file.")
    /\ UNCHANGED <<lsd, frames, surfaces, gifGrid, gifI, renderCanvas,
                   sheetCanvas, atComposite, composited, placed>>
    /\ UNCHANGED notGif

\* 1. Handle Disposal of previous frame
DisposeByCurrentFrame(canvas, i) ==
    IF i > 0 /\ frames[i + 1].disposalType = 2
    THEN ClearRect(canvas, lsd.width, lsd.height)
    ELSE canvas

Dispose(canvas, i) ==
    IF i > 0 /\ frames[i].disposalType = 2
    THEN ClearRect(canvas, lsd.width, lsd.height)
    ELSE canvas

\* 2. Draw current frame patch
Composite(canvas, frame) ==
    IF surfaces.patch /\ frame.dims.width > 0 /\ frame.dims.height > 0
    THEN DrawImage(canvas, PatchCanvas(frame), frame.dims.left, frame.dims.top)
    ELSE canvas

\* 3. the place of frame i on the sprite sheet
CellX(i, columns, width) == (i % columns) * width
CellY(i, columns, height) == (i \div columns) * height

\* sheetCtx.drawImage(renderCanvas, 0, 0, width, height, x, y, width, height)
EmitAtOrigin(sheet, canvas, i) ==
    DrawImageRect(sheet, canvas, lsd.width, lsd.height, 0, 0)

Emit(sheet, canvas, i) ==
    DrawImageRect(sheet, canvas, lsd.width, lsd.height,
                  CellX(i, gifGrid.columns, lsd.width),
                  CellY(i, gifGrid.columns, lsd.height))

\* one iteration of frames.forEach((frame, i) => ...); frames[i + 1] is frame i
GifFrame ==
    /\ gifPc = "loop"
    /\ gifI < gifGrid.frameCount
    /\ LET frame == frames[gifI + 1]
           disposed == Dispose(renderCanvas, gifI)
           drawn == Composite(disposed, frame)
           x == CellX(gifI, gifGrid.columns, lsd.width)
           y == CellY(gifI, gifGrid.columns, lsd.height)
       IN  /\ atComposite' = disposed
           /\ renderCanvas' = drawn
           /\ composited' = Append(composited, drawn)
           /\ sheetCanvas' = Emit(sheetCanvas, drawn, gifI)
           /\ placed' = Append(placed, <<x, y>>)
    /\ gifI' = gifI + 1
    /\ UNCHANGED <<gifPc, lsd, frames, surfaces, gifGrid, gifPromise>>
    /\ UNCHANGED notGif

\* resolve({src, width, height, rows, columns, frameCount})
GifResolve ==
    /\ gifPc = "loop"
    /\ gifI = gifGrid.frameCount
    /\ gifPc' = "done"
    /\ gifPromise' = Resolved([src |-> sheetCanvas,
                               width |-> gifGrid.columns * lsd.width,
                               height |-> gifGrid.rows * lsd.height,
                               rows |-> gifGrid.rows,
                               columns |-> gifGrid.columns,
                               frameCount |-> gifGrid.frameCount])
    /\ UNCHANGED <<lsd, frames, surfaces, gifGrid, gifI, renderCanvas,
                   sheetCanvas, atComposite, composited, placed>>
    /\ UNCHANGED notGif

GifNext == GifOnLoad \/ GifOnError \/ GifFrame \/ GifResolve

\* ------------------------------------------------------------------------
\* processGifFile: properties
\* ------------------------------------------------------------------------
Screen == Coords(lsd.width, lsd.height)

\* the screen pixels frame f's patch rectangle covers
Footprint(f) ==
    { p \in Screen :
        /\ f.dims.left <= p[1] /\ p[1] < f.dims.left + f.dims.width
        /\ f.dims.top <= p[2] /\ p[2] < f.dims.top + f.dims.height }

\* the patch pixel of frame f that lies over screen pixel p
PatchPixel(f, p) ==
    f.patch[(p[2] - f.dims.top) * f.dims.width + (p[1] - f.dims.left) + 1]

\* both fully transparent, or the same bytes
SamePixel(a, b) == a = b \/ (a[2] = 0 /\ b[2] = 0)

\* the patch of frame f was drawn (step 2 was not skipped)
Drew(f) == surfaces.patch /\ f.dims.width > 0 /\ f.dims.height > 0

\* C1: when frame i > 0 has just been handled: if frame i-1 has disposalType
\* 2 the render buffer was fully transparent when frame i's patch was drawn
\* and output frame i is transparent wherever frame i did not itself draw;
\* for any other disposalType of frame i-1 the buffer frame i is drawn on is
\* the one frame i-1 left.
C1_Disposal ==
    (gifPc # "read" /\ gifI > 1) =>
        LET prev == frames[gifI - 1]
            cur == frames[gifI]
        IN  IF prev.disposalType = 2
            THEN /\ \A p \in Screen : atComposite[p] = Clear
                 /\ \A p \in Screen :
                        composited[gifI][p] # Clear =>
                            /\ Drew(cur)
                            /\ p \in Footprint(cur)
                            /\ composited[gifI][p] = PatchPixel(cur, p)
            ELSE atComposite = composited[gifI - 1]

\* C1 witness: frame 2 (disposalType 2) left an opaque pixel, frame 3 drew
\* elsewhere, and that pixel is transparent in output frame 3
C1_Witness ==
    /\ gifPc = "loop" /\ gifI = 3
    /\ frames[2].disposalType = 2
    /\ \E p \in Screen :
          /\ composited[2][p][2] = 255
          /\ composited[3][p] = Clear
    /\ \E p \in Screen : composited[3][p] = <<3, 255>>

\* C2 as stated: after frame i is composited every screen pixel inside its
\* rectangle equals the patch pixel, whatever its alpha, and every pixel
\* outside is unchanged.
C2_DirectOverwrite ==
    (gifPc # "read" /\ gifI > 0 /\ Drew(frames[gifI])) =>
        \A p \in Screen :
            IF p \in Footprint(frames[gifI])
            THEN SamePixel(renderCanvas[p], PatchPixel(frames[gifI], p))
            ELSE renderCanvas[p] = atComposite[p]

\* C2 amended: the patch is drawn source-over: inside the rectangle a patch
\* pixel of alpha 255 replaces the buffer pixel and a patch pixel of alpha 0
\* leaves it as it was; outside the rectangle, and when the patch is not
\* drawn at all, the buffer is unchanged.
C2_SourceOver ==
    (gifPc # "read" /\ gifI > 0) =>
        LET cur == frames[gifI]
        IN  \A p \in Screen :
                IF Drew(cur) /\ p \in Footprint(cur) /\ PatchPixel(cur, p)[2] = 255
                THEN renderCanvas[p] = PatchPixel(cur, p)
                ELSE renderCanvas[p] = atComposite[p]

\* C2 witness: a patch with a transparent pixel over an opaque buffer pixel
\* and an opaque pixel that changed the buffer, drawn on part of the screen
C2_Witness ==
    /\ gifPc = "loop" /\ gifI > 0 /\ Drew(frames[gifI])
    /\ \E p \in Footprint(frames[gifI]) :
          /\ PatchPixel(frames[gifI], p)[2] = 0
          /\ atComposite[p][2] = 255
          /\ renderCanvas[p] = atComposite[p]
    /\ \E p \in Footprint(frames[gifI]) :
          /\ PatchPixel(frames[gifI], p)[2] = 255
          /\ renderCanvas[p] # atComposite[p]
    /\ \E p \in Screen : p \notin Footprint(frames[gifI])

\* the sheet pixels of cell number i (0-based), as a raster of screen size
SheetCell(i) ==
    [p \in Screen |->
        sheetCanvas[<<(i % gifGrid.columns) * lsd.width + p[1],
                      (i \div gifGrid.columns) * lsd.height + p[2]>>]]

\* C3: one output frame per handled input frame, in input order, each of
\* screen size; sheet cell i holds the render buffer as it was right after
\* frame i was composited, whatever later frames did; a resolved job has
\* emitted every frame.
C3_Snapshots ==
    (gifPc # "read" /\ gifPromise.state # "rejected") =>
        /\ Len(composited) = gifI
        /\ \A i \in 0 .. gifI - 1 :
              /\ DOMAIN composited[i + 1] = Screen
              /\ SheetCell(i) = composited[i + 1]
        /\ gifPromise.state = "resolved" =>
              /\ gifI = Len(frames)
              /\ gifPromise.value.frameCount = Len(frames)
              /\ gifPromise.value.src = sheetCanvas

\* C3 witness: a resolved job of three frames whose render buffer changed
\* after frame 1 was emitted
C3_Witness ==
    /\ gifPromise.state = "resolved"
    /\ Len(frames) = 3
    /\ composited[1] # composited[2]
    /\ composited[2] # composited[3]
    /\ composited[1] # NewCanvas(lsd.width, lsd.height)
    /\ SheetCell(0) = composited[1]

\* ------------------------------------------------------------------------
\* processVideoFile: inputs
\* ------------------------------------------------------------------------
MAX_FRAMES == 300

\* Math.min(Math.max(1, Math.floor(duration * fps)), MAX_FRAMES), duration in ms
FrameCountUnclamped(ms, f) == Max(1, (ms * f) \div 1000)

FrameCountOf(ms, f) == Min(Max(1, (ms * f) \div 1000), MAX_FRAMES)

Finite(ms) == [inf |-> FALSE, ms |-> ms]
Infinity == [inf |-> TRUE, ms |-> 0]

VideoSizes == { <<2, 1>>, <<1, 3>>, <<0, 0>> }
VideoFps == {1, 12}
VideoDurationsMs == {40, 250, 340, 420, 500, 590, 2000}

\* the [duration, fps] pairs the sampling loop is run on
VideoSamplings ==
    { s \in [ms : VideoDurationsMs, fps : VideoFps] :
        FrameCountOf(s.ms, s.fps) <= MaxSamples }

None == [by |-> "none", k |-> 0, time |-> 0]
Initial == [by |-> "initial", k |-> 0, time |-> 0]

VideoIdle ==
    /\ vPc = "idle"
    /\ vMeta = [width |-> 0, height |-> 0, duration |-> Finite(0), probed |-> Finite(0)]
    /\ fps = 0
    /\ vCtx = TRUE
    /\ duration = 0
    /\ vGrid = [frameCount |-> 0, columns |-> 0, rows |-> 0]
    /\ currentFrame = 0
    /\ outstanding = {}
    /\ listeners = {}
    /\ timers = {}
    /\ head = None
    /\ draws = <<>>
    /\ issued = <<>>
    /\ released = FALSE
    /\ cleanups = 0
    /\ vErrored = FALSE
    /\ vPromise = Pending

\* after `video.src = objectUrl`: the element is loading
VideoInit ==
    /\ vPc = "start"
    /\ \E size \in VideoSizes, s \in VideoSamplings, inf \in BOOLEAN, fixed \in BOOLEAN :
          /\ vMeta = [width |-> size[1], height |-> size[2],
                      duration |-> IF inf THEN Infinity ELSE Finite(s.ms),
                      probed |-> IF inf /\ ~fixed THEN Infinity ELSE Finite(s.ms)]
          /\ fps = s.fps
    /\ vCtx \in BOOLEAN
    /\ duration = 0
    /\ vGrid = [frameCount |-> 0, columns |-> 0, rows |-> 0]
    /\ currentFrame = 0
    /\ outstanding = {}
    /\ listeners = {}
    /\ timers = {}
    /\ head = Initial
    /\ draws = <<>>
    /\ issued = <<>>
    /\ released = FALSE
    /\ cleanups = 0
    /\ vErrored = FALSE
    /\ vPromise = Pending

\* ------------------------------------------------------------------------
\* processVideoFile: operations
\* ------------------------------------------------------------------------
\* Times are in ticks of 1 / (1000 * fps) s, so that k * timeStep is k * 1000.
ProbeSeconds == 10000

\* Math.min(currentFrame * timeStep, duration - 0.05)
SampleTime(k, ms) == Min(k * 1000, (ms - 50) * fps)

Seek(by, k, time) == [by |-> by, k |-> k, time |-> time]

\* Calculate Grid (Square-ish)
VideoGridOf(frameCount) ==
    LET columns == CeilSqrt(frameCount)
    IN  [frameCount |-> frameCount, columns |-> columns,
         rows |-> CeilDiv(frameCount, columns)]

\* Calculate position
VCellX(k, columns, width) == (k % columns) * width

VCellYNoFloor(k, columns, height) == ((k + columns - 1) \div columns) * height

VCellY(k, columns, height) == (k \div columns) * height

CaptureUnlessTimeout(d, k, g, h, by, via) ==
    IF by = "timeout" THEN d
    ELSE Append(d, [k |-> k,
                    x |-> VCellX(k, g.columns, vMeta.width),
                    y |-> VCellY(k, g.columns, vMeta.height),
                    width |-> vMeta.width, height |-> vMeta.height,
                    pic |-> h, by |-> by, via |-> via])

\* ctx.drawImage(video, 0, 0, width, height, x, y, width, height) for
\* sample k; `by` tells how the wait for its seek ended and `via` names the
\* seek whose 'seeked' event ended it
Capture(d, k, g, h, by, via) ==
    Append(d, [k |-> k,
               x |-> VCellX(k, g.columns, vMeta.width),
               y |-> VCellY(k, g.columns, vMeta.height),
               width |-> vMeta.width, height |-> vMeta.height,
               pic |-> h, by |-> by, via |-> via])

CleanupSkipped(n) == n

\* cleanup(): revoke the object URL, drop src, detach the element; n counts
\* the calls
Cleanup(n) == n + 1

KeepListener(ls, k) == ls

\* video.removeEventListener('seeked', onSeek) of the wait for sample k
RemoveListener(ls, k) == ls \ {k}

\* resolve / reject settle the promise once
Settle(outcome) == IF vPromise.state = "pending" THEN outcome ELSE vPromise

\* video.currentTime = time: a released element (no src) starts no seek
SetCurrentTime(out, s) == IF released THEN out ELSE out \cup {s}

\* a throw inside onloadedmetadata: catch rejects, finally runs cleanup()
Throw(msg, iss) ==
    /\ vPc' = "done"
    /\ vPromise' = Settle(Rejected(msg))
    /\ released' = TRUE
    /\ cleanups' = Cleanup(cleanups)
    /\ outstanding' = {}
    /\ head' = None
    /\ issued' = iss
    /\ UNCHANGED <<currentFrame, draws, listeners, timers>>

\* await seekTo(time) for sample k: arm the timeout and the listener, seek
AwaitSeek(k, ms, d, out, iss, ls, ts, h) ==
    LET s == Seek("sample", k, SampleTime(k, ms))
    IN  /\ vPc' = "wait"
        /\ currentFrame' = k
        /\ draws' = d
        /\ listeners' = ls \cup {k}
        /\ timers' = ts \cup {k}
        /\ outstanding' = SetCurrentTime(out, s)
        /\ issued' = Append(iss, s)
        /\ head' = h
        /\ UNCHANGED <<vPromise, released, cleanups>>

\* the loop is over: resolve, then finally runs cleanup()
Finish(g, d, iss, ls, ts) ==
    /\ vPc' = "done"
    /\ currentFrame' = g.frameCount
    /\ draws' = d
    /\ vPromise' = Settle(Resolved([src |-> d,
                                    width |-> g.columns * vMeta.width,
                                    height |-> g.rows * vMeta.height,
                                    rows |-> g.rows,
                                    columns |-> g.columns,
                                    frameCount |-> g.frameCount]))
    /\ released' = TRUE
    /\ cleanups' = Cleanup(cleanups)
    /\ outstanding' = {}
    /\ head' = None
    /\ issued' = iss
    /\ listeners' = ls
    /\ timers' = ts

\* `while (currentFrame < frameCount)` reached with currentFrame = k >= 1
Advance(k, ms, g, d, out, iss, ls, ts, h) ==
    IF k < g.frameCount
    THEN AwaitSeek(k, ms, d, out, iss, ls, ts, h)
    ELSE Finish(g, d, iss, ls, ts)

\* lines 86-140: frame count, grid, sheet canvas, and the loop up to its
\* first await; `ready` is video.currentTime < 0.1 && video.readyState >= 2
SetUpAndLoop(ms, out, iss) ==
    LET g == VideoGridOf(FrameCountOf(ms, fps))
    IN  /\ duration' = ms
        /\ vGrid' = g
        /\ IF ~vCtx
           THEN Throw("Failed to create canvas context.", iss)
           ELSE \E ready \in BOOLEAN :
                  IF ready
                  THEN Advance(1, ms, g, Capture(draws, 0, g, head, "skipped", None),
                               out, iss, listeners, timers, head)
                  ELSE AwaitSeek(0, ms, draws, out, iss, listeners, timers, head)

\* video.onloadedmetadata, up to its first await
VOnLoadedMetadata ==
    /\ vPc = "start"
    /\ ~vErrored
    /\ IF vMeta.width = 0 \/ vMeta.height = 0
       THEN /\ Throw("Invalid video dimensions.", issued)
            /\ UNCHANGED <<duration, vGrid>>
       ELSE IF vMeta.duration.inf
       THEN LET s == Seek("probe", 0, ProbeSeconds * 1000 * fps)
            IN  /\ vPc' = "probe"
                /\ outstanding' = SetCurrentTime(outstanding, s)
                /\ issued' = Append(issued, s)
                /\ UNCHANGED <<duration, vGrid, currentFrame, listeners, timers,
                               head, draws, released, cleanups, vPromise>>
       ELSE SetUpAndLoop(vMeta.duration.ms, outstanding, issued)
    /\ UNCHANGED <<vMeta, fps, vCtx, vErrored>>
    /\ UNCHANGED notVideo

RewindStays == ProbeSeconds * 1000

\* video.currentTime = 0 once the duration is known
RewindTime == 0

\* the 200 ms timer of the Infinity-duration path fires
VProbeTimer ==
    /\ vPc = "probe"
    /\ IF ~released /\ ~vMeta.probed.inf
       THEN LET s == Seek("rewind", 0, RewindTime)
            IN  SetUpAndLoop(vMeta.probed.ms, SetCurrentTime(outstanding, s),
                             Append(issued, s))
       ELSE /\ Throw("Could not determine video duration. Try converting to a standard MP4.",
                 issued)
            /\ UNCHANGED <<duration, vGrid>>
    /\ UNCHANGED <<vMeta, fps, vCtx, vErrored>>
    /\ UNCHANGED notVideo

\* the element finishes seek s and dispatches 'seeked'; a registered onSeek
\* clears its timeout and resolves the wait, and the loop goes on
VOnSeeked(s) ==
    /\ s \in outstanding
    /\ IF vPc = "wait" /\ currentFrame \in listeners
       THEN Advance(currentFrame + 1, duration, vGrid,
                    Capture(draws, currentFrame, vGrid, s, "seeked", s),
                    outstanding \ {s}, issued, {}, timers \ listeners, s)
       ELSE /\ outstanding' = outstanding \ {s}
            /\ head' = s
            /\ listeners' = {}
            /\ timers' = timers \ listeners
            /\ UNCHANGED <<vPc, currentFrame, draws, issued, released, cleanups,
                           vPromise>>
    /\ UNCHANGED <<vMeta, fps, vCtx, duration, vGrid, vErrored>>
    /\ UNCHANGED notVideo

\* the 1 s timeout of sample k's wait fires: the listener is removed, the
\* wait resolves, and the loop goes on
VSeekTimeout(k) ==
    /\ k \in timers
    /\ IF vPc = "wait" /\ currentFrame = k
       THEN Advance(k + 1, duration, vGrid,
                    Capture(draws, k, vGrid, head, "timeout", None),
                    outstanding, issued, RemoveListener(listeners, k), timers \ {k},
                    head)
       ELSE /\ listeners' = RemoveListener(listeners, k)
            /\ timers' = timers \ {k}
            /\ UNCHANGED <<vPc, currentFrame, draws, issued, released, cleanups,
                           vPromise, outstanding, head>>
    /\ UNCHANGED <<vMeta, fps, vCtx, duration, vGrid, vErrored>>
    /\ UNCHANGED notVideo

\* the element drops a seek that a later video.currentTime = t superseded
VSeekSuperseded(s) ==
    /\ s \in outstanding
    /\ s # issued[Len(issued)]
    /\ outstanding' = outstanding \ {s}
    /\ UNCHANGED <<vPc, vMeta, fps, vCtx, duration, vGrid, currentFrame, listeners,
                   timers, head, draws, issued, released, cleanups, vErrored,
                   vPromise>>
    /\ UNCHANGED notVideo

\* video.onerror: cleanup(), then reject
VOnError ==
    /\ vPc \in {"start", "probe", "wait"}
    /\ ~vErrored
    /\ vErrored' = TRUE
    /\ released' = TRUE
    /\ cleanups' = Cleanup(cleanups)
    /\ outstanding' = {}
    /\ head' = None
    /\ vPromise' = Settle(Rejected("Failed to load video file."))
    /\ vPc' = IF vPc = "start" THEN "done" ELSE vPc
    /\ UNCHANGED <<vMeta, fps, vCtx, duration, vGrid, currentFrame, listeners,
                   timers, draws, issued>>
    /\ UNCHANGED notVideo

VideoNext ==
    \/ VOnLoadedMetadata
    \/ VProbeTimer
    \/ \E s \in outstanding : VOnSeeked(s)
    \/ \E k \in timers : VSeekTimeout(k)
    \/ \E s \in outstanding : VSeekSuperseded(s)
    \/ VOnError

\* ------------------------------------------------------------------------
\* processVideoFile: properties
\* ------------------------------------------------------------------------
\* the sampling loop was entered
LoopEntered == vPc \in {"wait", "done"} /\ vCtx /\ vGrid.frameCount > 0

\* the seeks the job issued for sample k
SeeksFor(k) == { j \in 1 .. Len(issued) : issued[j].by = "sample" /\ issued[j].k = k }

\* C4: a wait that ends by the 1 s timeout raises no error: sample k is
\* drawn from the picture the element shows, with the one seek issued for
\* it, and the loop goes on to sample k+1; whatever the pattern of 'seeked'
\* events and timeouts, a finished job has drawn frameCount samples and,
\* unless the video raised an error event, has resolved.
C4_TimeoutTolerated ==
    LoopEntered =>
        /\ \A i \in 1 .. Len(draws) :
              draws[i].by = "timeout" =>
                  /\ draws[i].k = i - 1
                  /\ Cardinality(SeeksFor(i - 1)) = 1
                  /\ ~vErrored => vPromise.state # "rejected"
                  /\ (Len(draws) = i /\ vPc = "wait") =>
                        /\ currentFrame = i
                        /\ ~released => draws[i].pic = head
                  /\ (Len(draws) = i /\ vPc = "done") => i = vGrid.frameCount
        /\ vPc = "done" =>
              /\ Len(draws) = vGrid.frameCount
              /\ ~vErrored =>
                    /\ vPromise.state = "resolved"
                    /\ vPromise.value.frameCount = vGrid.frameCount

\* C4 witness: a resolved job of three samples or more in which one wait
\* timed out with its seek unfinished and a later wait ended by 'seeked'
C4_Witness ==
    /\ vPc = "done" /\ vPromise.state = "resolved"
    /\ Len(draws) >= 3
    /\ \E i, j \in 1 .. Len(draws) :
          /\ i < j
          /\ draws[i].by = "timeout"
          /\ draws[i].pic # issued[CHOOSE n \in SeeksFor(i - 1) : TRUE]
          /\ draws[j].by = "seeked"

\* C5 as stated: at most one seek issued by the job is outstanding (set on
\* video.currentTime, its 'seeked' event not yet dispatched).
C5_OneOutstandingSeek == Cardinality(outstanding) <= 1

\* C6: samples are drawn in index order 0, 1, 2, ..., one draw per index,
\* sample k at cell (k mod columns, floor(k / columns)), whatever waits
\* timed out; a finished loop has drawn every index.
C6_StrictOrder ==
    LoopEntered =>
        /\ Len(draws) <= vGrid.frameCount
        /\ \A i \in 1 .. Len(draws) :
              /\ draws[i].k = i - 1
              /\ draws[i].x = ((i - 1) % vGrid.columns) * vMeta.width
              /\ draws[i].y = ((i - 1) \div vGrid.columns) * vMeta.height
        /\ vPc = "wait" => currentFrame = Len(draws)
        /\ vPc = "done" => Len(draws) = vGrid.frameCount

\* C6 witness: a finished job of two rows in which a wait timed out and the
\* samples after it were drawn in the second row
C6_Witness ==
    /\ vPc = "done" /\ vPromise.state = "resolved"
    /\ vGrid.rows >= 2
    /\ \E i \in 1 .. Len(draws) - 1 :
          /\ draws[i].by = "timeout"
          /\ draws[i + 1].y > 0
          /\ draws[i + 1].by = "seeked"

\* the Infinity-duration path was taken and its 200 ms wait is over
ProbeOver ==
    /\ vMeta.duration.inf
    /\ vMeta.width > 0 /\ vMeta.height > 0
    /\ Len(issued) >= 1
    /\ vPc \in {"wait", "done"}

\* C20: with a duration of Infinity the job seeks to a large timestamp and
\* waits; if the element then reports a finite duration the job uses it
\* and sets currentTime back to 0 before any sample is sought or drawn,
\* otherwise it rejects and draws no frame.
C20_UnboundedDuration ==
    /\ (vMeta.duration.inf /\ Len(issued) >= 1) =>
          issued[1] = Seek("probe", 0, ProbeSeconds * 1000 * fps)
    /\ (vMeta.duration.inf /\ vPc = "probe") =>
          Len(issued) = 1 /\ draws = <<>>
    /\ ProbeOver =>
          /\ \/ /\ Len(issued) = 1
                /\ draws = <<>>
                /\ vPc = "done"
                /\ vPromise.state = "rejected"
                /\ vMeta.probed.inf \/ vErrored
             \/ /\ ~vMeta.probed.inf
                /\ Len(issued) >= 2
                /\ issued[2] = Seek("rewind", 0, 0)
                /\ duration = vMeta.probed.ms
                /\ vGrid.frameCount = FrameCountOf(vMeta.probed.ms, fps)
                /\ \A j \in 3 .. Len(issued) : issued[j].by = "sample"
          /\ vMeta.probed.inf =>
                /\ Len(issued) = 1
                /\ ~vErrored => vPromise.value =
                      "Could not determine video duration. Try converting to a standard MP4."
          /\ (~vMeta.probed.inf /\ ~vErrored) => Len(issued) >= 2

\* C20 witness: a job that found its duration by the probe, set the time
\* back, and resolved with two samples or more
C20_Witness ==
    /\ ProbeOver /\ vPc = "done"
    /\ vPromise.state = "resolved"
    /\ issued[2].by = "rewind"
    /\ Len(draws) >= 2
    /\ duration = vMeta.probed.ms

\* C21: on every exit path (resolve, a throw inside the metadata handler,
\* the error event) cleanup has run by the time the promise is settled: the
\* object URL is revoked and the element detached.
C21_ReleasedWhenSettled ==
    vPromise.state # "pending" => (released /\ cleanups >= 1)

\* C21 witness: a job resolved after two samples or more, cleaned up once
C21_Witness ==
    /\ vPromise.state = "resolved"
    /\ Len(draws) >= 2
    /\ released /\ cleanups = 1

\* C23 as stated: a wait that ended by 'seeked' was ended by the event of
\* the seek issued for that very sample, never by the event of an earlier
\* seek (one whose wait timed out, the probe, or the seek back to 0).
C23_OwnSeekOnly ==
    \A i \in 1 .. Len(draws) :
        draws[i].by = "seeked" =>
            (draws[i].via.by = "sample" /\ draws[i].via.k = i - 1)

\* C24 as stated: once the error event has rejected the job, no further
\* seek is issued and no further frame drawn, and cleanup runs once per job.
C24_NothingAfterError ==
    [][/\ vErrored => (issued' = issued /\ draws' = draws)
       /\ cleanups' <= 1]_vars

\* C26: a wait ends once, by 'seeked' or by its timer, and the other
\* trigger is disarmed with it: the listener and the timer armed are those
\* of the sample being waited for, and none is armed when no wait is on.
C26_Disarmed ==
    /\ listeners = timers
    /\ vPc = "wait" =>
          /\ listeners \subseteq {currentFrame}
          /\ Len(draws) = currentFrame
    /\ vPc # "wait" => listeners = {}

\* C26 witness: the wait for sample 2 is on, after one wait that ended by
\* its timer and one that ended by 'seeked'
C26_Witness ==
    /\ vPc = "wait" /\ currentFrame = 2
    /\ listeners = {2} /\ timers = {2}
    /\ draws[1].by = "timeout" /\ draws[2].by = "seeked"

\* ------------------------------------------------------------------------
\* The sprite sheet of processGifFile and of processVideoFile
\* ------------------------------------------------------------------------
\* c is ceil(sqrt(n)); r is ceil(n / c)
IsCeilSqrt(c, n) == c >= 1 /\ c * c >= n /\ (c - 1) * (c - 1) < n
IsCeilDiv(r, n, c) == r * c >= n /\ (r - 1) * c < n

\* the result v describes the sheet of n frames of w x h
SheetOf(v, n, w, h) ==
    /\ n >= 1
    /\ v.frameCount = n
    /\ IsCeilSqrt(v.columns, n)
    /\ IsCeilDiv(v.rows, n, v.columns)
    /\ v.width = v.columns * w
    /\ v.height = v.rows * h

\* C9: a resolved GIF or video job of n >= 1 frames of w x h returns
\* columns = ceil(sqrt(n)), rows = ceil(n / columns), frameCount = n and the
\* sheet size columns*w by rows*h, the sheet has that size, and frame i was
\* drawn at ((i mod columns)*w, floor(i / columns)*h) for every i < n.
C9_SheetLayout ==
    /\ gifPromise.state = "resolved" =>
          LET v == gifPromise.value
          IN  /\ SheetOf(v, Len(frames), lsd.width, lsd.height)
              /\ DOMAIN sheetCanvas = Coords(v.width, v.height)
              /\ Len(placed) = v.frameCount
              /\ \A i \in 0 .. v.frameCount - 1 :
                    /\ placed[i + 1] = <<(i % v.columns) * lsd.width,
                                         (i \div v.columns) * lsd.height>>
                    /\ SheetCell(i) = composited[i + 1]
    /\ vPromise.state = "resolved" =>
          LET v == vPromise.value
          IN  /\ SheetOf(v, vGrid.frameCount, vMeta.width, vMeta.height)
              /\ v.frameCount = FrameCountOf(duration, fps)
              /\ Len(draws) = v.frameCount
              /\ \A i \in 0 .. v.frameCount - 1 :
                    /\ draws[i + 1].k = i
                    /\ draws[i + 1].x = (i % v.columns) * vMeta.width
                    /\ draws[i + 1].y = (i \div v.columns) * vMeta.height
                    /\ draws[i + 1].width = vMeta.width
                    /\ draws[i + 1].height = vMeta.height

\* C9 witness (video): five frames on a sheet of 3 columns and 2 rows
C9_Witness ==
    /\ vPromise.state = "resolved"
    /\ vPromise.value.frameCount = 5
    /\ vPromise.value.columns = 3 /\ vPromise.value.rows = 2
    /\ draws[5].x = vMeta.width /\ draws[5].y = vMeta.height

\* ------------------------------------------------------------------------
\* processVideoFile: the frame count alone
\* ------------------------------------------------------------------------
CountIdle ==
    /\ vsDuration = 0
    /\ vsFps = 0
    /\ vsFrameCount = 0

CountInit ==
    /\ vsDuration \in { q * 250 : q \in 0 .. MaxQuarterSeconds }
    /\ vsFps \in (0 - 1) .. MaxFps
    /\ vsFrameCount = 0

\* Calculate total frames to extract
CountFrames ==
    /\ vsFrameCount = 0
    /\ vsFrameCount' = FrameCountOf(vsDuration, vsFps)
    /\ UNCHANGED <<vsDuration, vsFps>>
    /\ UNCHANGED notCount

CountNext == CountFrames

\* C7: frameCount is floor(duration * fps) clamped to 1 .. 300, so it is
\* never below 1 nor above 300; 2.0 s at 12 fps give 24.
C7_FrameCount ==
    vsFrameCount # 0 =>
        LET total == (vsDuration * vsFps) \div 1000
        IN  /\ 1 <= vsFrameCount /\ vsFrameCount <= 300
            /\ vsFrameCount = (IF total < 1 THEN 1 ELSE IF total > 300 THEN 300 ELSE total)
            /\ (vsDuration = 2000 /\ vsFps = 12) => vsFrameCount = 24

\* C7 witness: a clip long enough for more than 300 frames is cut to 300
C7_Witness ==
    /\ vsFrameCount = 300
    /\ (vsDuration * vsFps) \div 1000 > 300

\* ------------------------------------------------------------------------
\* sliceImage
\* ------------------------------------------------------------------------
SliceIdle ==
    /\ slPc = "idle"
    /\ img = [width |-> 0, height |-> 0]
    /\ settings = [rows |-> 0, columns |-> 0, imageWidth |-> 0, imageHeight |-> 0]
    /\ slColor = FALSE
    /\ slCtx = [full |-> TRUE, frame |-> TRUE]
    /\ fullCanvas = [width |-> 0, height |-> 0, mapped |-> FALSE]
    /\ slPromise = Pending

\* after `img.src = imageSrc`
SliceInit ==
    /\ slPc = "loading"
    /\ img \in { [width |-> MaxSide, height |-> 1], [width |-> 2, height |-> MaxSide] }
    /\ settings \in [rows : 0 .. MaxGrid, columns : 0 .. MaxGrid,
                      imageWidth : 0 .. MaxSide, imageHeight : 0 .. MaxSide]
    /\ slColor \in BOOLEAN
    /\ slCtx \in { [full |-> TRUE, frame |-> TRUE], [full |-> FALSE, frame |-> TRUE],
                   [full |-> TRUE, frame |-> FALSE] }
    /\ fullCanvas = [width |-> 0, height |-> 0, mapped |-> FALSE]
    /\ slPromise = Pending

\* a || b on numbers
OrElse(a, b) == IF a # 0 THEN a ELSE b

CeilCell(target, n) == IF n = 0 THEN 0 ELSE (target + n - 1) \div n

\* Math.floor(target / n); for n = 0 it is Infinity, which no frame ever uses
DestFrameSize(target, n) == IF n = 0 THEN 0 ELSE target \div n

Blank == <<0 - 1, 0 - 1>>

\* frameCtx.clearRect(...) and frameCtx.drawImage(fullCanvas, sx, sy, w, h,
\* 0, 0, w, h): a frame pixel is the full-canvas pixel it was copied from,
\* or blank where the source rectangle leaves the canvas
FramePixels(sx, sy, w, h, fullW, fullH) ==
    [p \in Coords(w, h) |->
        IF <<sx + p[1], sy + p[2]>> \in Coords(fullW, fullH)
        THEN <<sx + p[1], sy + p[2]>> ELSE Blank]

\* for (r ...) for (c ...) { ...; frames.push({... index: count ...}); count++ }
RECURSIVE SliceLoop(_, _, _, _, _, _, _, _)
SliceLoop(r, c, count, acc, fw, fh, fullW, fullH) ==
    IF r >= settings.rows THEN acc
    ELSE IF c >= settings.columns
    THEN SliceLoop(r + 1, 0, count, acc, fw, fh, fullW, fullH)
    ELSE SliceLoop(r, c + 1, count + 1,
                   Append(acc, [id |-> <<r, c>>, index |-> count,
                                width |-> fw, height |-> fh,
                                url |-> FramePixels(c * fw, r * fh, fw, fh, fullW, fullH)]),
                   fw, fh, fullW, fullH)

\* img.onload
SliceOnLoad ==
    /\ slPc = "loading"
    /\ slPc' = "done"
    /\ LET targetW == OrElse(settings.imageWidth, img.width)
           targetH == OrElse(settings.imageHeight, img.height)
           destFrameWidth == DestFrameSize(targetW, settings.columns)
           destFrameHeight == DestFrameSize(targetH, settings.rows)
       IN  IF ~slCtx.full
           THEN /\ slPromise' = Rejected("Could not get canvas context")
                /\ UNCHANGED fullCanvas
           ELSE /\ fullCanvas' = [width |-> targetW, height |-> targetH,
                                  mapped |-> slColor]
                /\ slPromise' =
                      IF ~slCtx.frame
                      THEN Rejected("Could not get frame context")
                      ELSE Resolved(SliceLoop(0, 0, 0, <<>>, destFrameWidth,
                                              destFrameHeight, targetW, targetH))
    /\ UNCHANGED <<img, settings, slColor, slCtx>>
    /\ UNCHANGED notSlice

\* img.onerror
SliceOnError ==
    /\ slPc = "loading"
    /\ slPc' = "done"
    /\ slPromise' = Rejected("image error")
    /\ UNCHANGED <<img, settings, slColor, slCtx, fullCanvas>>
    /\ UNCHANGED notSlice

SliceNext == SliceOnLoad \/ SliceOnError

\* C8: with R >= 1 rows and C >= 1 columns on a W x H target, sliceImage
\* resolves with R*C frames of floor(W/C) x floor(H/R); the frame of row r
\* and column c is number r*C + c of the list, carries that index, and is
\* the region of the full canvas at (c*floor(W/C), r*floor(H/R)); no pixel
\* at x >= C*floor(W/C) or y >= R*floor(H/R) is in a frame and no frame
\* pixel is padding.
C8_GridSlices ==
    (slPromise.state = "resolved" /\ settings.rows >= 1 /\ settings.columns >= 1) =>
        LET R == settings.rows
            C == settings.columns
            W == fullCanvas.width
            H == fullCanvas.height
            fw == W \div C
            fh == H \div R
            fs == slPromise.value
        IN  /\ Len(fs) = R * C
            /\ \A r \in 0 .. R - 1 : \A c \in 0 .. C - 1 :
                  LET f == fs[r * C + c + 1]
                  IN  /\ f.index = r * C + c
                      /\ f.id = <<r, c>>
                      /\ f.width = fw /\ f.height = fh
                      /\ DOMAIN f.url = Coords(fw, fh)
                      /\ \A p \in Coords(fw, fh) :
                            f.url[p] = <<c * fw + p[1], r * fh + p[2]>>
            /\ \A n \in 1 .. Len(fs) : \A p \in DOMAIN fs[n].url :
                  /\ fs[n].url[p] # Blank
                  /\ fs[n].url[p] \in Coords(W, H)
                  /\ fs[n].url[p][1] < C * fw
                  /\ fs[n].url[p][2] < R * fh

\* C8 witness: a resolved slicing with remainder columns and rows
C8_Witness ==
    /\ slPromise.state = "resolved"
    /\ settings.rows = 2 /\ settings.columns = 2
    /\ fullCanvas.width = 5 /\ fullCanvas.height = 3
    /\ Len(slPromise.value) = 4
    /\ slPromise.value[4].url[<<1, 0>>] = <<3, 1>>

\* ------------------------------------------------------------------------
\* generateGradientLUT and applyGradientMap
\* ------------------------------------------------------------------------
\* A color is the hex digits after '#', as numbers 0 .. 15.
HexToRgbOneDigit(hex) == [r |-> hex[1], g |-> hex[3], b |-> hex[5]]

\* hexToRgb: six hex digits, or black when the pattern does not match
HexToRgb(hex) ==
    IF Len(hex) = 6 /\ \A d \in 1 .. 6 : hex[d] \in 0 .. 15
    THEN [r |-> hex[1] * 16 + hex[2], g |-> hex[3] * 16 + hex[4],
          b |-> hex[5] * 16 + hex[6]]
    ELSE [r |-> 0, g |-> 0, b |-> 0]

\* [...stops].sort((a, b) => a.offset - b.offset): a stable sort
RECURSIVE InsertStop(_, _)
InsertStop(sorted, stop) ==
    IF sorted = <<>> THEN <<stop>>
    ELSE IF sorted[Len(sorted)].offset <= stop.offset THEN Append(sorted, stop)
    ELSE Append(InsertStop(SubSeq(sorted, 1, Len(sorted) - 1), stop),
                sorted[Len(sorted)])

RECURSIVE SortStops(_)
SortStops(stops) ==
    IF stops = <<>> THEN <<>>
    ELSE InsertStop(SortStops(SubSeq(stops, 1, Len(stops) - 1)), stops[Len(stops)])

\* the for loop of getColorAt for t = level / 255: the first pair of
\* neighbours with s1.offset/100 <= t <= s2.offset/100, or <<first, last>>
RECURSIVE FindPair(_, _, _)
FindPair(sorted, level, i) ==
    IF i > Len(sorted) - 1 THEN <<sorted[1], sorted[Len(sorted)]>>
    ELSE IF 100 * level >= 255 * sorted[i].offset
            /\ 100 * level <= 255 * sorted[i + 1].offset
    THEN <<sorted[i], sorted[i + 1]>>
    ELSE FindPair(sorted, level, i + 1)

\* a step gradient: the colour of the left stop of the pair
LerpHeld(c1, c2, level, start, end) == <<c1, 1>>

\* c1 + (c2 - c1) * localT as the fraction <<numerator, denominator>>, where
\* localT = range === 0 ? 0 : (t - o1) / range
Lerp(c1, c2, level, start, end) ==
    IF end.offset = start.offset THEN <<c1, 1>>
    ELSE <<c1 * 255 * (end.offset - start.offset)
             + (c2 - c1) * (100 * level - 255 * start.offset),
           255 * (end.offset - start.offset)>>

\* storing the fraction q (denominator > 0) in a Uint8ClampedArray: clamp to
\* 0 .. 255 and round to nearest, ties to even
ToUint8Clamped(q) ==
    LET n == q[1]
        d == q[2]
        f == n \div d
        rem == n % d
    IN  IF n <= 0 THEN 0
        ELSE IF n >= 255 * d THEN 255
        ELSE IF 2 * rem < d THEN f
        ELSE IF 2 * rem > d THEN f + 1
        ELSE f + (f % 2)

\* lut[i * 3], lut[i * 3 + 1], lut[i * 3 + 2] for level i
LutEntry(sorted, level) ==
    LET pair == FindPair(sorted, level, 1)
        c1 == HexToRgb(pair[1].color)
        c2 == HexToRgb(pair[2].color)
    IN  <<ToUint8Clamped(Lerp(c1.r, c2.r, level, pair[1], pair[2])),
          ToUint8Clamped(Lerp(c1.g, c2.g, level, pair[1], pair[2])),
          ToUint8Clamped(Lerp(c1.b, c2.b, level, pair[1], pair[2]))>>

generateGradientLUT(stops) ==
    LET sorted == SortStops(stops)
    IN  [level \in 0 .. 255 |-> LutEntry(sorted, level)]

LuminanceTruncated(r, g, b) == (2126 * r + 7152 * g + 722 * b) \div 10000

\* Math.round(0.2126 * r + 0.7152 * g + 0.0722 * b)
Luminance(r, g, b) == (2126 * r + 7152 * g + 722 * b + 5000) \div 10000

MapEveryPixel(px, lut) ==
    LET c == lut[Luminance(px[1], px[2], px[3])]
    IN  <<c[1], c[2], c[3], px[4]>>

\* one iteration of the pixel loop
MapPixel(px, lut) ==
    IF px[4] = 0 THEN px
    ELSE LET c == lut[Luminance(px[1], px[2], px[3])]
         IN  <<c[1], c[2], c[3], px[4]>>

applyGradientMap(data, cs) ==
    IF ~cs.enabled \/ Len(cs.stops) < 2 THEN data
    ELSE LET lut == generateGradientLUT(cs.stops)
         IN  [i \in 1 .. Len(data) |-> MapPixel(data[i], lut)]

Black == <<0, 0, 0, 0, 0, 0>>
White == <<15, 15, 15, 15, 15, 15>>
Red == <<15, 15, 0, 0, 0, 0>>
Teal == <<2, 0, 8, 0, 9, 0>>
ShortWhite == <<15, 15, 15>>

Stop(offset, color) == [offset |-> offset, color |-> color]

StopLists ==
    { <<>>,
      <<Stop(0, Black)>>,
      <<Stop(0, Black), Stop(100, White)>>,
      <<Stop(100, Red), Stop(0, Teal)>>,
      <<Stop(20, Teal), Stop(80, Red)>>,
      <<Stop(50, Red), Stop(50, Teal)>>,
      <<Stop(0, Teal), Stop(100, ShortWhite), Stop(40, White)>> }

PixelValues ==
    { <<0, 0, 0, 0>>, <<255, 10, 20, 0>>, <<128, 128, 128, 255>>,
      <<255, 0, 0, 128>>, <<0, 255, 0, 1>>, <<255, 255, 255, 255>>,
      <<10, 200, 30, 255>>, <<200, 100, 50, 255>> }

RECURSIVE Buffers(_)
Buffers(n) ==
    IF n = 0 THEN {<<>>}
    ELSE { Append(b, px) : b \in Buffers(n - 1), px \in PixelValues }

GradIdle ==
    /\ gmPc = "idle"
    /\ imageData = <<>>
    /\ colorSettings = [enabled |-> FALSE, stops |-> <<>>]
    /\ original = <<>>

GradInit ==
    /\ gmPc = "ready"
    /\ imageData \in UNION { Buffers(n) : n \in 0 .. MaxPixels }
    /\ colorSettings \in [enabled : BOOLEAN, stops : StopLists]
    /\ original = imageData

\* applyGradientMap(imageData, colorSettings)
GradApply ==
    /\ gmPc = "ready"
    /\ gmPc' = "done"
    /\ imageData' = applyGradientMap(imageData, colorSettings)
    /\ UNCHANGED <<colorSettings, original>>
    /\ UNCHANGED notGrad

GradNext == GradApply

\* C10: applyGradientMap leaves the alpha byte of every pixel as it was and
\* leaves all four bytes of every pixel of alpha 0 as they were.
C10_AlphaPreserved ==
    gmPc = "done" =>
        /\ Len(imageData) = Len(original)
        /\ \A i \in 1 .. Len(original) :
              /\ imageData[i][4] = original[i][4]
              /\ original[i][4] = 0 => imageData[i] = original[i]

\* C10 witness: an enabled map recoloured a pixel of alpha > 0 and left a
\* coloured pixel of alpha 0 beside it as it was
C10_Witness ==
    /\ gmPc = "done"
    /\ colorSettings.enabled /\ Len(colorSettings.stops) >= 2
    /\ \E i, j \in 1 .. Len(original) :
          /\ original[i][4] > 0 /\ original[i][4] < 255
          /\ imageData[i] # original[i]
          /\ original[j][4] = 0
          /\ original[j][1] # 0
          /\ imageData[j] = original[j]

\* ------------------------------------------------------------------------
\* The sheet grid and the cells of a frame count, as both builders compute
\* them
\* ------------------------------------------------------------------------
NoGrid == [frameCount |-> 0, columns |-> 0, rows |-> 0, cells |-> <<>>]

LayoutIdle ==
    /\ lyPc = "idle"
    /\ lyCount = 0
    /\ lyGrid = NoGrid

LayoutInit ==
    /\ lyPc = "ready"
    /\ lyCount \in 1 .. MAX_FRAMES
    /\ lyGrid = NoGrid

\* processVideoFile: columns, rows, and <<col, row>> of each currentFrame
LayoutOfVideo ==
    /\ lyPc = "ready"
    /\ lyPc' = "done"
    /\ LET g == VideoGridOf(lyCount)
       IN  lyGrid' = [frameCount |-> g.frameCount, columns |-> g.columns,
                      rows |-> g.rows,
                      cells |-> [k \in 1 .. lyCount |->
                                    <<VCellX(k - 1, g.columns, 1),
                                      VCellY(k - 1, g.columns, 1)>>]]
    /\ UNCHANGED lyCount
    /\ UNCHANGED notLayout

\* processGifFile: columns, rows, and <<col, row>> of each frame index i
LayoutOfGif ==
    /\ lyPc = "ready"
    /\ lyPc' = "done"
    /\ LET g == GridOf(lyCount)
       IN  lyGrid' = [frameCount |-> g.frameCount, columns |-> g.columns,
                      rows |-> g.rows,
                      cells |-> [i \in 1 .. lyCount |->
                                    <<CellX(i - 1, g.columns, 1),
                                      CellY(i - 1, g.columns, 1)>>]]
    /\ UNCHANGED lyCount
    /\ UNCHANGED notLayout

LayoutNext == LayoutOfVideo \/ LayoutOfGif

\* C28: for every frameCount n in 1 .. 300, columns = ceil(sqrt(n)) and
\* rows = ceil(n / columns) give rows*columns >= n, rows <= columns and
\* (rows - 1)*columns < n; the cells of frames 0 .. n-1 are pairwise
\* distinct, lie inside the sheet, and every row of the sheet holds one.
C28_GridFits ==
    lyPc = "done" =>
        LET n == lyCount
            columns == lyGrid.columns
            rows == lyGrid.rows
            cells == lyGrid.cells
        IN  /\ IsCeilSqrt(columns, n)
            /\ rows * columns >= n
            /\ rows <= columns
            /\ (rows - 1) * columns < n
            /\ Len(cells) = n
            /\ Cardinality({ cells[i] : i \in 1 .. n }) = n
            /\ \A i \in 1 .. n :
                  /\ cells[i][1] \in 0 .. columns - 1
                  /\ cells[i][2] \in 0 .. rows - 1
                  /\ cells[i] = <<(i - 1) % columns, (i - 1) \div columns>>
            /\ \A row \in 0 .. rows - 1 : \E i \in 1 .. n : cells[i][2] = row

\* C28 witness: the largest frame count, 300 frames on 18 columns by 17
\* rows, the last row holding 12 frames
C28_Witness ==
    /\ lyPc = "done"
    /\ lyCount = MAX_FRAMES
    /\ lyGrid.columns = 18 /\ lyGrid.rows = 17
    /\ lyGrid.cells[MAX_FRAMES] = <<11, 16>>

\* ------------------------------------------------------------------------
\* SplitterWorkspace: edits of the grid settings
\* ------------------------------------------------------------------------
MaxImageSide == 3
MaxEdit == 2

\* an absent suggestedRows / suggestedColumns is 0: `x || 4` treats both alike
Undefined == 0

EditImages ==
    [width : 1 .. MaxImageSide, height : 1 .. MaxImageSide,
     suggestedRows : {Undefined, 2}, suggestedColumns : {Undefined}]

\* what parseInt(e.target.value) yields: NaN for an empty field, or a
\* number n, written <<n>>
NaN == <<>>
EditValues == {NaN} \cup { <<n>> : n \in -1 .. MaxEdit }

NoEdit == [field |-> "none", value |-> NaN, changed |-> FALSE]

EditIdle ==
    /\ edImage = [width |-> 0, height |-> 0, suggestedRows |-> 0,
                  suggestedColumns |-> 0]
    /\ edSettings = [rows |-> 0, columns |-> 0, imageWidth |-> 0, imageHeight |-> 0]
    /\ edLocked = FALSE
    /\ edRatio = <<0, 1>>
    /\ edLast = NoEdit

\* the effect on [image]: settings from the image
SettingsOf(image) ==
    [rows |-> OrElse(image.suggestedRows, 4),
     columns |-> OrElse(image.suggestedColumns, 4),
     imageWidth |-> image.width,
     imageHeight |-> image.height]

\* the component mounted with an image and its effect on [image] has run
EditInit ==
    /\ edImage \in EditImages
    /\ edSettings = SettingsOf(edImage)
    /\ edLocked = TRUE
    /\ edRatio = <<edImage.width, edImage.height>>
    /\ edLast = NoEdit

\* x || d for a parsed number: NaN and 0 are falsy
NumberOr(x, d) == IF x = NaN THEN d ELSE IF x[1] = 0 THEN d ELSE x[1]

\* Math.round of the fraction n / d, d > 0: floor(n / d + 1/2)
RoundDiv(n, d) == (2 * n + d) \div (2 * d)

Edited(field, value, after) ==
    [field |-> field, value |-> value, changed |-> after # edSettings]

\* the image prop changes: the effect resets settings, ratio and lock
EditImageChange(image) ==
    /\ image # edImage
    /\ edImage' = image
    /\ edSettings' = SettingsOf(image)
    /\ edRatio' = <<image.width, image.height>>
    /\ edLocked' = TRUE
    /\ edLast' = NoEdit
    /\ UNCHANGED notEdit

\* onChange of the Columns input
EditColumns(value) ==
    LET after == [edSettings EXCEPT !.columns = Max(1, NumberOr(value, 1))]
    IN  /\ edSettings' = after
        /\ edLast' = Edited("columns", value, after)
        /\ UNCHANGED <<edImage, edLocked, edRatio>>
        /\ UNCHANGED notEdit

\* onChange of the Rows input
EditRows(value) ==
    LET after == [edSettings EXCEPT !.rows = Max(1, NumberOr(value, 1))]
    IN  /\ edSettings' = after
        /\ edLast' = Edited("rows", value, after)
        /\ UNCHANGED <<edImage, edLocked, edRatio>>
        /\ UNCHANGED notEdit

\* handleDimensionChange(field, value)
DimensionChange(field, value) ==
    IF value < 1 THEN edSettings
    ELSE IF ~edLocked THEN [edSettings EXCEPT ![field] = value]
    ELSE IF field = "imageWidth"
    THEN [edSettings EXCEPT !.imageWidth = value,
                            !.imageHeight = RoundDiv(value * edRatio[2], edRatio[1])]
    ELSE [edSettings EXCEPT !.imageHeight = value,
                            !.imageWidth = RoundDiv(value * edRatio[1], edRatio[2])]

\* onChange of the Width and Height inputs
HandleDimensionChange(field, value) ==
    LET after == DimensionChange(field, NumberOr(value, 0))
    IN  /\ edSettings' = after
        /\ edLast' = Edited(field, value, after)
        /\ UNCHANGED <<edImage, edLocked, edRatio>>
        /\ UNCHANGED notEdit

\* onClick of the lock button
ToggleAspectLock ==
    /\ edLocked' = ~edLocked
    /\ UNCHANGED <<edImage, edSettings, edRatio, edLast>>
    /\ UNCHANGED notEdit

\* handleResetDimensions
HandleResetDimensions ==
    /\ edSettings' = [edSettings EXCEPT !.imageWidth = edImage.width,
                                        !.imageHeight = edImage.height]
    /\ edLast' = NoEdit
    /\ UNCHANGED <<edImage, edLocked, edRatio>>
    /\ UNCHANGED notEdit

EditNext ==
    \/ \E image \in EditImages : EditImageChange(image)
    \/ \E value \in EditValues : EditColumns(value)
    \/ \E value \in EditValues : EditRows(value)
    \/ \E field \in {"imageWidth", "imageHeight"}, value \in EditValues :
          HandleDimensionChange(field, value)
    \/ ToggleAspectLock
    \/ HandleResetDimensions

\* C27 as stated: from an image of width >= 1 and height >= 1, after any
\* row, column, width and height edits, lock toggles and resets, rows,
\* columns, imageWidth and imageHeight are all >= 1, and an edit with a
\* value < 1 leaves the settings as they were.
C27_SettingsPositive ==
    /\ edSettings.rows >= 1 /\ edSettings.columns >= 1
    /\ edSettings.imageWidth >= 1 /\ edSettings.imageHeight >= 1
    /\ (edLast.field # "none" /\ edLast.value # NaN /\ edLast.value[1] < 1)
          => ~edLast.changed

\* the first half of C27 alone
C27_AllAtLeastOne ==
    /\ edSettings.rows >= 1 /\ edSettings.columns >= 1
    /\ edSettings.imageWidth >= 1 /\ edSettings.imageHeight >= 1

\* the second half of C27 alone, for the width and height fields
C27_DimensionBelowOneIgnored ==
    (edLast.field \in {"imageWidth", "imageHeight"}
        /\ edLast.value # NaN /\ edLast.value[1] < 1) => ~edLast.changed

\* ------------------------------------------------------------------------
\* SplitterWorkspace: the preview canvas and its grid, beside sliceImage
\* on the same settings
\* ------------------------------------------------------------------------
PreviewIdle ==
    /\ pvPc = "idle"
    /\ pvFrameDim = [w |-> 0, h |-> 0]
    /\ pvLines = [xs |-> <<>>, ys |-> <<>>]

\* the effect on [image, settings, colorSettings] has set img.src; the
\* component keeps rows >= 1 and columns >= 1
PreviewInit ==
    /\ pvPc = "loading"
    /\ pvFrameDim = [w |-> 0, h |-> 0]
    /\ pvLines = [xs |-> <<>>, ys |-> <<>>]
    /\ settings.rows >= 1 /\ settings.columns >= 1

\* Math.floor(c * cellW) with cellW = size / n, on exact fractions
LineAt(c, size, n) == (c * size) \div n

\* img.onload of the preview: setFrameDimensions and the two line loops
PreviewOnLoad ==
    /\ pvPc = "loading"
    /\ pvPc' = "drawn"
    /\ pvFrameDim' = [w |-> settings.imageWidth \div settings.columns,
                      h |-> settings.imageHeight \div settings.rows]
    /\ pvLines' = [xs |-> [c \in 1 .. settings.columns - 1 |->
                              LineAt(c, settings.imageWidth, settings.columns)],
                   ys |-> [r \in 1 .. settings.rows - 1 |->
                              LineAt(r, settings.imageHeight, settings.rows)]]
    /\ UNCHANGED notPreview

PreviewNext == PreviewOnLoad

\* C29 as stated: for every settings value the frame size shown by the
\* preview is the slicer's frame size, floor(W / columns) by
\* floor(H / rows), and the preview's vertical line c is at
\* c * floor(W / columns), the left edge of the slicer's column c, and its
\* horizontal line r at r * floor(H / rows).
C29_SamePartition ==
    (pvPc = "drawn" /\ slPromise.state = "resolved") =>
        LET fs == slPromise.value
            C == settings.columns
            R == settings.rows
        IN  /\ pvFrameDim = [w |-> fs[1].width, h |-> fs[1].height]
            /\ pvFrameDim = [w |-> settings.imageWidth \div C,
                             h |-> settings.imageHeight \div R]
            /\ \A c \in 1 .. C - 1 :
                  pvLines.xs[c] = c * fs[c + 1].width
            /\ \A r \in 1 .. R - 1 :
                  pvLines.ys[r] = r * fs[r * C + 1].height

\* the frame-size half of C29, for settings with W >= 1 and H >= 1
C29_SameFrameSize ==
    (pvPc = "drawn" /\ slPromise.state = "resolved"
       /\ settings.imageWidth >= 1 /\ settings.imageHeight >= 1) =>
        pvFrameDim = [w |-> slPromise.value[1].width,
                      h |-> slPromise.value[1].height]

\* the grid-line half of C29, for settings with W >= 1 and H >= 1
C29_LinesOnEdges ==
    (pvPc = "drawn" /\ slPromise.state = "resolved"
       /\ settings.imageWidth >= 1 /\ settings.imageHeight >= 1) =>
        /\ \A c \in 1 .. settings.columns - 1 :
              pvLines.xs[c] = c * slPromise.value[c + 1].width
        /\ \A r \in 1 .. settings.rows - 1 :
              pvLines.ys[r] = r * slPromise.value[r * settings.columns + 1].height

\* ------------------------------------------------------------------------
\* AnimationPreview
\* ------------------------------------------------------------------------
MaxAnimFrames == 4

FpsChoices == {12, 24}

\* no effect has run yet
NoDeps == [playing |-> FALSE, fps |-> 0, len |-> 0 - 1]

DepsNow == [playing |-> apPlaying, fps |-> apFps, len |-> apLen]

AnimIdle ==
    /\ apLen = 0
    /\ apIndex = 0
    /\ apPlaying = FALSE
    /\ apFps = 0
    /\ apTimer = 0
    /\ apDeps = NoDeps
    /\ apPending = FALSE
    /\ apRendered = [len |-> 0, index |-> 0]

\* the first render: useState(true), useState(0), useState(24); the
\* effects of the mount are still to run
AnimInit ==
    /\ apLen \in 0 .. MaxAnimFrames
    /\ apIndex = 0
    /\ apPlaying = TRUE
    /\ apFps = 24
    /\ apTimer = 0
    /\ apDeps = NoDeps
    /\ apPending = TRUE
    /\ apRendered = [len |-> apLen, index |-> 0]

\* the component function runs: it reads frames and currentFrameIndex
Render(len, index) == [len |-> len, index |-> index]

\* the two effects after a commit. The interval effect, on a change of
\* [isPlaying, fps, frames.length]: the previous cleanup clears the
\* interval, then a new one starts when frames.length > 0 and isPlaying.
\* The reset effect, on a change of [frames.length]:
\* setCurrentFrameIndex(0), which renders again when the index was not 0.
AnimRunEffects ==
    /\ apPending
    /\ apPending' = FALSE
    /\ apDeps' = DepsNow
    /\ apTimer' = IF apDeps = DepsNow THEN apTimer
                  ELSE IF apLen # 0 /\ apPlaying THEN apLen
                  ELSE 0
    /\ apIndex' = IF apDeps.len # apLen THEN 0 ELSE apIndex
    /\ apRendered' = Render(apLen, apIndex')
    /\ UNCHANGED <<apLen, apPlaying, apFps>>
    /\ UNCHANGED notAnim

\* the interval callback: setCurrentFrameIndex(prev => (prev + 1) % frames.length)
AnimTick ==
    /\ ~apPending
    /\ apTimer # 0
    /\ apIndex' = (apIndex + 1) % apTimer
    /\ apRendered' = Render(apLen, apIndex')
    /\ UNCHANGED <<apLen, apPlaying, apFps, apTimer, apDeps, apPending>>
    /\ UNCHANGED notAnim

\* onClick of the play / pause button
AnimTogglePlay ==
    /\ ~apPending
    /\ apPlaying' = ~apPlaying
    /\ apPending' = TRUE
    /\ apRendered' = Render(apLen, apIndex)
    /\ UNCHANGED <<apLen, apIndex, apFps, apTimer, apDeps>>
    /\ UNCHANGED notAnim

\* onChange of the speed slider
AnimSetFps(value) ==
    /\ ~apPending
    /\ value # apFps
    /\ apFps' = value
    /\ apPending' = TRUE
    /\ apRendered' = Render(apLen, apIndex)
    /\ UNCHANGED <<apLen, apIndex, apPlaying, apTimer, apDeps>>
    /\ UNCHANGED notAnim

\* the parent passes a frame list of another length: the component renders
\* with the new list and the index it has
AnimFramesReplaced(len) ==
    /\ ~apPending
    /\ len # apLen
    /\ apLen' = len
    /\ apPending' = TRUE
    /\ apRendered' = Render(len, apIndex)
    /\ UNCHANGED <<apIndex, apPlaying, apFps, apTimer, apDeps>>
    /\ UNCHANGED notAnim

AnimNext ==
    \/ AnimRunEffects
    \/ AnimTick
    \/ AnimTogglePlay
    \/ \E value \in FpsChoices : AnimSetFps(value)
    \/ \E len \in 0 .. MaxAnimFrames : AnimFramesReplaced(len)

\* C30 as stated: in every rendered state with a non-empty frame list,
\* 0 <= currentFrameIndex < frames.length, whatever the interleaving of
\* ticks, play / pause toggles, fps changes and replacements of the list by
\* one of another length.
C30_IndexInRange ==
    apRendered.len # 0 =>
        (0 <= apRendered.index /\ apRendered.index < apRendered.len)

\* the rest of C30: a tick advances the index by one modulo frames.length,
\* and once the effects of a render have run the index is in range, reset
\* to 0 by a change of the list length
C30_TickAndReset ==
    [][/\ (~apPending /\ apIndex' # apIndex) =>
             (apLen # 0 /\ apIndex' = (apIndex + 1) % apLen)
       /\ (apPending /\ ~apPending' /\ apDeps.len # apLen) => apIndex' = 0
       /\ (~apPending' /\ apLen' # 0) => apIndex' \in 0 .. apLen' - 1]_vars

\* ------------------------------------------------------------------------
\* SplitterWorkspace: the debounced handleSplit
\* ------------------------------------------------------------------------
\* Version v of (image, settings, colorSettings) is the one after v
\* changes; a render's handleSplit closes over the version it rendered.
MaxChanges == 3

ChangeKinds == {"settings", "colorSettings", "image"}

Latest == Len(spLog)

SplitIdle ==
    /\ spLog = <<>>
    /\ spTimer = {}
    /\ spSlices = {}
    /\ spFailed = {}
    /\ spDelivered = <<>>

\* mounted: the effect on [settings, image, colorSettings] has set the timer
SplitInit ==
    /\ spLog = <<>>
    /\ spTimer = {0}
    /\ spSlices = {}
    /\ spFailed = {}
    /\ spDelivered = <<>>

\* settings, colorSettings or the image prop change: the effect's cleanup
\* clears the pending timer and the effect sets a new one
SplitChange(kind) ==
    /\ Len(spLog) < MaxChanges
    /\ spLog' = Append(spLog, kind)
    /\ spTimer' = {Len(spLog')}
    /\ UNCHANGED <<spSlices, spFailed, spDelivered>>
    /\ UNCHANGED notSplit

\* the debounce timer fires: handleSplit() calls sliceImage(image.src,
\* settings, colorSettings) and awaits it
SplitTimerFires ==
    /\ spTimer # {}
    /\ spTimer' = {}
    /\ spSlices' = spSlices \cup spTimer
    /\ UNCHANGED <<spLog, spFailed, spDelivered>>
    /\ UNCHANGED notSplit

\* a sliceImage promise resolves: onFramesGenerated(frames)
SplitSliceResolves(v) ==
    /\ v \in spSlices
    /\ spSlices' = spSlices \ {v}
    /\ spDelivered' = Append(spDelivered, v)
    /\ UNCHANGED <<spLog, spTimer, spFailed>>
    /\ UNCHANGED notSplit

\* a sliceImage promise rejects: console.error, nothing is delivered
SplitSliceRejects(v) ==
    /\ v \in spSlices
    /\ spSlices' = spSlices \ {v}
    /\ spFailed' = spFailed \cup {v}
    /\ UNCHANGED <<spLog, spTimer, spDelivered>>
    /\ UNCHANGED notSplit

SplitNext ==
    \/ \E kind \in ChangeKinds : SplitChange(kind)
    \/ SplitTimerFires
    \/ \E v \in 0 .. MaxChanges : SplitSliceResolves(v)
    \/ \E v \in 0 .. MaxChanges : SplitSliceRejects(v)

\* C25 as stated: once no timer and no slice is pending, the frame list
\* most recently passed to onFramesGenerated is the one computed from the
\* latest image and settings (where the slice for them resolved): a slice
\* for older settings or an older image never delivers after a newer one.
C25_LatestDeliveredLast ==
    /\ (spTimer = {} /\ spSlices = {} /\ Latest \notin spFailed) =>
          (spDelivered # <<>> /\ spDelivered[Len(spDelivered)] = Latest)
    /\ \A i, j \in 1 .. Len(spDelivered) :
          i < j => spDelivered[i] < spDelivered[j]

\* what does hold: the latest version is sliced, and is delivered unless
\* its slice rejected
C25_LatestDelivered ==
    (spTimer = {} /\ spSlices = {} /\ Latest \notin spFailed) =>
        \E i \in 1 .. Len(spDelivered) : spDelivered[i] = Latest

\* ------------------------------------------------------------------------
\* applyGradientMap on one pixel under the black-to-white stops
\* ------------------------------------------------------------------------
BlackToWhite == <<Stop(0, Black), Stop(100, White)>>
WhiteToBlack == <<Stop(0, White), Stop(100, Black)>>

\* one-pixel buffers: every gray level at alpha 255 and 128, and the
\* coloured pixels of PixelValues
RampPixels ==
    { <<v, v, v, a>> : v \in 0 .. 255, a \in {128, 255} } \cup PixelValues

RampInit ==
    /\ gmPc = "ready"
    /\ imageData \in { <<px>> : px \in RampPixels }
    /\ colorSettings \in [enabled : BOOLEAN, stops : {BlackToWhite, WhiteToBlack}]
    /\ original = imageData

IsGray(px) == px[1] = px[2] /\ px[2] = px[3]

\* C22: with stops (0, #000000), (100, #ffffff) and the filter enabled the
\* LUT is the identity ramp, entry i = (i, i, i), and applyGradientMap
\* leaves every opaque gray pixel (v, v, v, 255) as it was.
C22_IdentityRamp ==
    (gmPc = "done" /\ colorSettings.enabled /\ colorSettings.stops = BlackToWhite)
        => /\ \A i \in 0 .. 255 :
                 generateGradientLUT(colorSettings.stops)[i] = <<i, i, i>>
           /\ \A p \in 1 .. Len(original) :
                 (IsGray(original[p]) /\ original[p][4] = 255)
                     => imageData[p] = original[p]

\* C22 witness: the pixel (128, 128, 128, 255) went through the enabled
\* black-to-white map
C22_Witness ==
    /\ gmPc = "done"
    /\ colorSettings = [enabled |-> TRUE, stops |-> BlackToWhite]
    /\ original = << <<128, 128, 128, 255>> >>
    /\ imageData = << <<128, 128, 128, 255>> >>

\* ------------------------------------------------------------------------
\* generateGradientLUT on its own
\* ------------------------------------------------------------------------
LutOffsets == {0, 20, 80, 100}
LutColors == {Teal, Red}

RECURSIVE StopListsOf(_)
StopListsOf(n) ==
    IF n = 0 THEN {<<>>}
    ELSE { Append(l, Stop(o, c)) :
             l \in StopListsOf(n - 1), o \in LutOffsets, c \in LutColors }

NotCalled == [state |-> "none", value |-> <<>>]
Returned(v) == [state |-> "returned", value |-> v]
Thrown(e) == [state |-> "thrown", value |-> e]

LutIdle ==
    /\ lutPc = "idle"
    /\ lutStops = <<>>
    /\ lutOut = NotCalled

LutInit ==
    /\ lutPc = "ready"
    /\ lutStops \in UNION { StopListsOf(n) : n \in 0 .. MaxStops }
    /\ lutOut = NotCalled

\* generateGradientLUT(stops); with no stop at all, sortedStops[0] is
\* undefined and getColorAt throws on start.offset
LutGenerate ==
    /\ lutPc = "ready"
    /\ lutPc' = "done"
    /\ lutOut' = IF Len(lutStops) = 0 THEN Thrown("TypeError")
                 ELSE Returned(generateGradientLUT(lutStops))
    /\ UNCHANGED lutStops
    /\ UNCHANGED notLut

LutNext == LutGenerate

\* the R, G, B of a stop
ColorOf(stop) ==
    LET c == HexToRgb(stop.color) IN <<c.r, c.g, c.b>>

\* the first stop supplied with the given offset
FirstAt(stops, offset) ==
    stops[CHOOSE i \in 1 .. Len(stops) :
            /\ stops[i].offset = offset
            /\ \A j \in 1 .. i - 1 : stops[j].offset # offset]

HasOffset(stops, offset) == \E i \in 1 .. Len(stops) : stops[i].offset = offset

\* C12: for a list of 2 stops or more with a stop at offset 0 and a stop
\* at offset 100, in any order and with any stops between, entry 0 of the
\* table is the colour of the offset-0 stop and entry 255 the colour of
\* the offset-100 stop (of the first one supplied, where several share the
\* offset).
C12_Endpoints ==
    (lutPc = "done" /\ Len(lutStops) >= 2
       /\ HasOffset(lutStops, 0) /\ HasOffset(lutStops, 100)) =>
        /\ lutOut.state = "returned"
        /\ DOMAIN lutOut.value = 0 .. 255
        /\ lutOut.value[0] = ColorOf(FirstAt(lutStops, 0))
        /\ lutOut.value[255] = ColorOf(FirstAt(lutStops, 100))

\* C12 witness: the offset-100 stop supplied first, another stop between,
\* the two end colours different
C12_Witness ==
    /\ lutPc = "done" /\ Len(lutStops) = 3
    /\ lutStops[1].offset = 100 /\ lutStops[2].offset = 20 /\ lutStops[3].offset = 0
    /\ lutStops[1].color # lutStops[3].color
    /\ lutOut.state = "returned"
    /\ lutOut.value[0] = ColorOf(lutStops[3])
    /\ lutOut.value[255] = ColorOf(lutStops[1])

LowestOffset(stops) ==
    CHOOSE o \in { stops[i].offset : i \in 1 .. Len(stops) } :
        \A i \in 1 .. Len(stops) : o <= stops[i].offset

HighestOffset(stops) ==
    CHOOSE o \in { stops[i].offset : i \in 1 .. Len(stops) } :
        \A i \in 1 .. Len(stops) : o >= stops[i].offset

\* the colours of the stops at the given offset
ColorsAt(stops, offset) ==
    { ColorOf(stops[i]) : i \in { j \in 1 .. Len(stops) : stops[j].offset = offset } }

\* C13 as stated: a level whose t = i/255 is below the smallest stop offset
\* has the colour of the lowest-offset stop, and a level whose t is above
\* the largest stop offset has the colour of the highest-offset stop.
C13_ClampOutside ==
    (lutPc = "done" /\ lutOut.state = "returned") =>
        \A i \in 0 .. 255 :
            /\ 100 * i < 255 * LowestOffset(lutStops) =>
                  lutOut.value[i] \in ColorsAt(lutStops, LowestOffset(lutStops))
            /\ 100 * i > 255 * HighestOffset(lutStops) =>
                  lutOut.value[i] \in ColorsAt(lutStops, HighestOffset(lutStops))

ChannelValues == {0, 1, 127, 128, 254, 255}

\* round(0.2126*R + 0.7152*G + 0.0722*B) as the nearest integer to the
\* exact sum, a half rounding up
RoundedLuma(px) ==
    CHOOSE L \in 0 .. 255 :
        /\ 2 * (2126 * px[1] + 7152 * px[2] + 722 * px[3]) >= 20000 * L - 10000
        /\ 2 * (2126 * px[1] + 7152 * px[2] + 722 * px[3]) < 20000 * L + 10000

\* C11: applyGradientMap leaves the buffer byte-identical when the map is
\* disabled or has fewer than 2 stops; otherwise every pixel of alpha > 0
\* gets the R, G, B of LUT[L], L the rounded Rec. 709 luminance of its
\* original channels, and L is an index in 0 .. 255.
C11_Reference ==
    /\ \A r \in ChannelValues, g \in ChannelValues, b \in ChannelValues :
          Luminance(r, g, b) \in 0 .. 255
    /\ gmPc = "done" =>
          IF ~colorSettings.enabled \/ Len(colorSettings.stops) < 2
          THEN imageData = original
          ELSE LET lut == generateGradientLUT(colorSettings.stops)
               IN  /\ Len(imageData) = Len(original)
                   /\ \A i \in 1 .. Len(original) :
                         original[i][4] > 0 =>
                             LET L == RoundedLuma(original[i])
                             IN  /\ \E K \in 0 .. 255 :
                                       /\ 2 * (2126 * original[i][1] + 7152 * original[i][2]
                                              + 722 * original[i][3]) >= 20000 * K - 10000
                                       /\ 2 * (2126 * original[i][1] + 7152 * original[i][2]
                                              + 722 * original[i][3]) < 20000 * K + 10000
                                 /\ imageData[i] = <<lut[L][1], lut[L][2], lut[L][3],
                                                     original[i][4]>>

\* C11 witness: an enabled map recoloured a pixel whose luminance sum
\* rounds up, and a disabled map left a buffer with such a pixel alone
C11_Witness ==
    /\ gmPc = "done"
    /\ colorSettings.enabled /\ Len(colorSettings.stops) >= 2
    /\ \E i \in 1 .. Len(original) :
          /\ original[i][4] > 0
          /\ (2126 * original[i][1] + 7152 * original[i][2] + 722 * original[i][3])
                % 10000 >= 5000
          /\ imageData[i] # original[i]
          /\ imageData[i][1] = RoundedLuma(original[i])

\* C18 as stated: sliceImage with rows < 1, columns < 1, target width < 1
\* or target height < 1 fails with an error and never resolves, with frames
\* or with an empty list.
C18_GeometryError ==
    (slPc = "done"
       /\ (settings.rows < 1 \/ settings.columns < 1
             \/ OrElse(settings.imageWidth, img.width) < 1
             \/ OrElse(settings.imageHeight, img.height) < 1)) =>
        slPromise.state = "rejected"

\* ------------------------------------------------------------------------
\* getTrimmedData
\* ------------------------------------------------------------------------
\* the decoded image: w x h, the pixels in `opaque` of alpha 255 and the
\* others of alpha 0
TrimImages ==
    UNION { [width : {w}, height : {h}, opaque : SUBSET Coords(w, h)] :
              w \in 1 .. MaxTrimSide, h \in 1 .. MaxTrimSide }

\* the pixels of the image; pixel (x, y) carries the colour y * w + x + 1
ImagePixels(im) ==
    [p \in Coords(im.width, im.height) |->
        <<p[2] * im.width + p[1] + 1, IF p \in im.opaque THEN 255 ELSE 0>>]

\* canvas.getContext('2d') and trimmedCanvas.getContext('2d')
TrimSurfaceCases ==
    { [ctx |-> TRUE, tCtx |-> TRUE], [ctx |-> TRUE, tCtx |-> FALSE],
      [ctx |-> FALSE, tCtx |-> TRUE] }

TrimIdle ==
    /\ trPc = "idle"
    /\ trImg = [width |-> 0, height |-> 0, opaque |-> {}]
    /\ trCtx = [ctx |-> TRUE, tCtx |-> TRUE]
    /\ trOut = Pending

\* after `img.src = base64`
TrimInit ==
    /\ trPc = "loading"
    /\ trImg \in TrimImages
    /\ trCtx \in TrimSurfaceCases
    /\ trOut = Pending

\* let minX = w, minY = h, maxX = 0, maxY = 0; let found = false
EmptyBox(w, h) ==
    [minX |-> w, minY |-> h, maxX |-> 0, maxY |-> 0, found |-> FALSE]

ScanPixelMinOnly(box, x, y, alpha) ==
    IF alpha > 0
    THEN [minX |-> Min(box.minX, x), minY |-> Min(box.minY, y),
          maxX |-> box.maxX, maxY |-> box.maxY, found |-> TRUE]
    ELSE box

\* the body of the scan loops for the pixel at (x, y)
ScanPixel(box, x, y, alpha) ==
    IF alpha > 0
    THEN [minX |-> Min(box.minX, x), minY |-> Min(box.minY, y),
          maxX |-> Max(box.maxX, x), maxY |-> Max(box.maxY, y), found |-> TRUE]
    ELSE box

\* for (y ...) for (x ...) over data[(y * w + x) * 4 + 3], from pixel k on
RECURSIVE Scan(_, _, _, _, _)
Scan(canvas, w, h, k, box) ==
    IF k >= w * h THEN box
    ELSE Scan(canvas, w, h, k + 1,
              ScanPixel(box, k % w, k \div w, canvas[<<k % w, k \div w>>][2]))

TrimSizeExclusive(min, max) == max - min

\* trimW = maxX - minX + 1, trimH = maxY - minY + 1
TrimSize(min, max) == max - min + 1

\* tCtx?.drawImage(canvas, minX, minY, trimW, trimH, 0, 0, trimW, trimH) on
\* a new canvas of trimW x trimH; without a context the canvas stays blank
TrimmedCanvas(canvas, sx, sy, w, h) ==
    [p \in Coords(w, h) |->
        LET q == <<sx + p[1], sy + p[2]>>
        IN  IF trCtx.tCtx /\ q \in DOMAIN canvas
            THEN SourceOver(canvas[q], Clear) ELSE Clear]

\* the value getTrimmedData resolves with
TrimResult ==
    LET w == trImg.width
        h == trImg.height
        canvas == DrawImage(NewCanvas(w, h), ImagePixels(trImg), 0, 0)
        box == Scan(canvas, w, h, 0, EmptyBox(w, h))
        trimW == TrimSize(box.minX, box.maxX)
        trimH == TrimSize(box.minY, box.maxY)
    IN  IF ~trCtx.ctx
        THEN [url |-> ImagePixels(trImg), x |-> 0, y |-> 0, width |-> w, height |-> h]
        ELSE IF ~box.found
        THEN [url |-> NewCanvas(1, 1), x |-> 0, y |-> 0, width |-> 1, height |-> 1]
        ELSE [url |-> TrimmedCanvas(canvas, box.minX, box.minY, trimW, trimH),
              x |-> box.minX, y |-> box.minY, width |-> trimW, height |-> trimH]

\* img.onload
TrimOnLoad ==
    /\ trPc = "loading"
    /\ trPc' = "done"
    /\ trOut' = Resolved(TrimResult)
    /\ UNCHANGED <<trImg, trCtx>>
    /\ UNCHANGED notTrim

\* the image fails to load: no onerror handler is set, the promise stays
\* pending
TrimLoadFails ==
    /\ trPc = "loading"
    /\ trPc' = "failed"
    /\ UNCHANGED <<trImg, trCtx, trOut>>
    /\ UNCHANGED notTrim

TrimNext == TrimOnLoad \/ TrimLoadFails

\* the pixels of the frame with alpha > 0
Visible == { p \in DOMAIN ImagePixels(trImg) : ImagePixels(trImg)[p][2] > 0 }

\* C14: for a frame with a pixel of alpha > 0 (and a 2d context to read it
\* with), getTrimmedData resolves with the minimal bounding rectangle of
\* the pixels of alpha > 0: they all lie inside it, each of its four border
\* rows and columns holds one, it lies inside the frame, and x, y, width,
\* height are minX, minY, maxX - minX + 1, maxY - minY + 1.
C14_MinimalBox ==
    (trPc = "done" /\ trCtx.ctx /\ Visible # {}) =>
        /\ trOut.state = "resolved"
        /\ LET v == trOut.value
               right == v.x + v.width - 1
               bottom == v.y + v.height - 1
           IN  /\ \A p \in Visible :
                     /\ v.x <= p[1] /\ p[1] <= right
                     /\ v.y <= p[2] /\ p[2] <= bottom
               /\ \E p \in Visible : p[1] = v.x
               /\ \E p \in Visible : p[1] = right
               /\ \E p \in Visible : p[2] = v.y
               /\ \E p \in Visible : p[2] = bottom
               /\ v.x >= 0 /\ v.y >= 0
               /\ right <= trImg.width - 1 /\ bottom <= trImg.height - 1
               /\ v.width >= 1 /\ v.height >= 1
               /\ DOMAIN v.url = Coords(v.width, v.height)
               /\ trCtx.tCtx =>
                     \A p \in DOMAIN v.url :
                        v.url[p] = PutPixel(ImagePixels(trImg)[<<v.x + p[1], v.y + p[2]>>])

\* C14 witness: a frame trimmed on all four sides, with a transparent pixel
\* left inside the crop
C14_Witness ==
    /\ trPc = "done" /\ trCtx.ctx /\ trCtx.tCtx
    /\ trOut.state = "resolved"
    /\ trImg.width = 3 /\ trImg.height = 3
    /\ trOut.value.x = 1 /\ trOut.value.y = 1
    /\ trOut.value.width = 2 /\ trOut.value.height = 2
    /\ \E p \in DOMAIN trOut.value.url : trOut.value.url[p] = Clear

\* C15: a frame whose pixels all have alpha 0 gives a 1 x 1 transparent
\* result at offset (0, 0); a frame with exactly one pixel of alpha > 0, at
\* (x0, y0), gives a 1 x 1 crop at offset (x0, y0) (a 2d context being
\* there to read the frame with).
C15_EmptyAndSingle ==
    (trPc = "done" /\ trCtx.ctx) =>
        /\ Visible = {} =>
              /\ trOut.state = "resolved"
              /\ trOut.value = [url |-> [p \in {<<0, 0>>} |-> Clear],
                                x |-> 0, y |-> 0, width |-> 1, height |-> 1]
        /\ \A p0 \in DOMAIN ImagePixels(trImg) :
              Visible = {p0} =>
                  /\ trOut.state = "resolved"
                  /\ trOut.value.x = p0[1] /\ trOut.value.y = p0[2]
                  /\ trOut.value.width = 1 /\ trOut.value.height = 1
                  /\ DOMAIN trOut.value.url = {<<0, 0>>}
                  /\ trCtx.tCtx => trOut.value.url[<<0, 0>>] = ImagePixels(trImg)[p0]

\* C15 witness: the single visible pixel is the bottom-right one of a 3 x 3
\* frame
C15_Witness ==
    /\ trPc = "done" /\ trCtx.ctx /\ trCtx.tCtx
    /\ trImg.width = 3 /\ trImg.height = 3
    /\ Visible = {<<2, 2>>}
    /\ trOut.state = "resolved"
    /\ trOut.value.x = 2 /\ trOut.value.y = 2
    /\ trOut.value.url[<<0, 0>>] = <<9, 255>>

\* ------------------------------------------------------------------------
\* SplitterWorkspace: handleAddStop, handleRemoveStop, handleStopChange
\* ------------------------------------------------------------------------
Gray == <<8, 0, 8, 0, 8, 0>>

IdStop(id, offset, color) == [id |-> id, offset |-> offset, color |-> color]

\* the useState initial value
DefaultStops == <<IdStop(1, 0, Black), IdStop(2, 100, White)>>

\* what the range input and the colour input hand to handleStopChange
EditOffsets == {70}
EditColors == {Red}

AddUpdate(stop) ==
    [op |-> "add", id |-> stop.id, field |-> "offset", value |-> 0, stop |-> stop]
RemoveUpdate(id) ==
    [op |-> "remove", id |-> id, field |-> "offset", value |-> 0,
     stop |-> IdStop(id, 0, Black)]
ChangeUpdate(id, field, value) ==
    [op |-> "change", id |-> id, field |-> field, value |-> value,
     stop |-> IdStop(id, 0, Black)]

\* prev.stops.filter(s => s.id !== id)
RECURSIVE WithoutId(_, _)
WithoutId(list, id) ==
    IF list = <<>> THEN <<>>
    ELSE IF list[1].id = id THEN WithoutId(Tail(list), id)
    ELSE <<list[1]>> \o WithoutId(Tail(list), id)

\* the updater function of each handler, applied to prev.stops
ApplyUpdate(u, list) ==
    IF u.op = "add" THEN SortStops(Append(list, u.stop))
    ELSE IF u.op = "remove" THEN WithoutId(list, u.id)
    ELSE SortStops([i \in 1 .. Len(list) |->
                      IF list[i].id = u.id
                      THEN [list[i] EXCEPT ![u.field] = u.value]
                      ELSE list[i]])

RECURSIVE ApplyAll(_, _)
ApplyAll(queue, list) ==
    IF queue = <<>> THEN list
    ELSE ApplyAll(Tail(queue), ApplyUpdate(queue[1], list))

StopsIdle ==
    /\ stStops = <<>>
    /\ stRendered = <<>>
    /\ stQueue = <<>>
    /\ stClock = 0

StopsInit ==
    /\ stStops = DefaultStops
    /\ stRendered = DefaultStops
    /\ stQueue = <<>>
    /\ stClock = 3

\* setColorSettings(updater): the updater waits for the next render
Enqueue(u) ==
    /\ Len(stQueue) < MaxQueued
    /\ stQueue' = Append(stQueue, u)
    /\ UNCHANGED <<stStops, stRendered, stClock>>
    /\ UNCHANGED notStops

HandleAddStop ==
    /\ Len(stRendered) + Len(stQueue) < MaxStopCount
    /\ Enqueue(AddUpdate(IdStop(stClock, 50, Gray)))

\* the guard reads colorSettings of the render the handler was created in
HandleRemoveStop(id) ==
    /\ ~(Len(stRendered) <= 2)
    /\ Enqueue(RemoveUpdate(id))

HandleStopChange(id, field, value) == Enqueue(ChangeUpdate(id, field, value))

\* React applies the queued updaters in order and renders again
Rerender ==
    /\ stQueue # <<>>
    /\ stStops' = ApplyAll(stQueue, stStops)
    /\ stRendered' = ApplyAll(stQueue, stStops)
    /\ stQueue' = <<>>
    /\ UNCHANGED stClock
    /\ UNCHANGED notStops

\* time passes between two calls of Date.now()
ClockTick ==
    /\ stClock < MaxClock
    /\ stClock' = stClock + 1
    /\ UNCHANGED <<stStops, stRendered, stQueue>>
    /\ UNCHANGED notStops

StopsNext ==
    \/ HandleAddStop
    \/ \E i \in 1 .. Len(stRendered) : HandleRemoveStop(stRendered[i].id)
    \/ \E i \in 1 .. Len(stRendered), o \in EditOffsets :
          HandleStopChange(stRendered[i].id, "offset", o)
    \/ \E i \in 1 .. Len(stRendered), c \in EditColors :
          HandleStopChange(stRendered[i].id, "color", c)
    \/ Rerender
    \/ ClockTick

SortedByOffset(list) ==
    \A i \in 1 .. Len(list) - 1 : list[i].offset <= list[i + 1].offset

\* C16 as stated: after any sequence of handleAddStop, handleRemoveStop and
\* handleStopChange calls, several of them from one rendered state
\* included, the stop list has at least 2 stops and is sorted by
\* non-decreasing offset.
C16_StopListInvariant ==
    /\ Len(stStops) >= 2
    /\ SortedByOffset(stStops)

\* ------------------------------------------------------------------------
\* Failures of the four operations
\* ------------------------------------------------------------------------
\* C17 as stated: when a canvas context is unavailable, when the GIF has no
\* frame, or when the video has no width or height, each of sliceImage,
\* getTrimmedData, processGifFile and processVideoFile ends rejected and
\* delivers no result value.
C17_FailuresReject ==
    /\ (slPc = "done" /\ (~slCtx.full \/ ~slCtx.frame)) =>
          slPromise.state = "rejected"
    /\ (trPc = "done" /\ (~trCtx.ctx \/ (~trCtx.tCtx /\ Visible # {}))) =>
          trOut.state = "rejected"
    /\ (gifPc = "done"
          /\ (Len(frames) = 0 \/ ~surfaces.sheet \/ ~surfaces.render \/ ~surfaces.patch)) =>
          gifPromise.state = "rejected"
    /\ (vPc = "done" /\ (~vCtx \/ vMeta.width = 0 \/ vMeta.height = 0)) =>
          vPromise.state = "rejected"

\* ------------------------------------------------------------------------
\* Specifications
\* ------------------------------------------------------------------------
InitGif == GifInit /\ VideoIdle /\ CountIdle /\ SliceIdle /\ GradIdle /\ LutIdle /\ TrimIdle /\ StopsIdle /\ LayoutIdle /\ EditIdle /\ PreviewIdle /\ AnimIdle /\ SplitIdle
SpecGif == InitGif /\ [][GifNext]_vars

InitVideo == VideoInit /\ GifIdle /\ CountIdle /\ SliceIdle /\ GradIdle /\ LutIdle /\ TrimIdle /\ StopsIdle /\ LayoutIdle /\ EditIdle /\ PreviewIdle /\ AnimIdle /\ SplitIdle
SpecVideo == InitVideo /\ [][VideoNext]_vars

\* a GIF job or a video job: the two sprite-sheet builders
InitSheet == InitGif \/ InitVideo
NextSheet == GifNext \/ VideoNext
SpecSheet == InitSheet /\ [][NextSheet]_vars

InitCount == CountInit /\ GifIdle /\ VideoIdle /\ SliceIdle /\ GradIdle /\ LutIdle /\ TrimIdle /\ StopsIdle /\ LayoutIdle /\ EditIdle /\ PreviewIdle /\ AnimIdle /\ SplitIdle
SpecCount == InitCount /\ [][CountNext]_vars

InitSlice == SliceInit /\ GifIdle /\ VideoIdle /\ CountIdle /\ GradIdle /\ LutIdle /\ TrimIdle /\ StopsIdle /\ LayoutIdle /\ EditIdle /\ PreviewIdle /\ AnimIdle /\ SplitIdle
SpecSlice == InitSlice /\ [][SliceNext]_vars

InitLut == LutInit /\ GifIdle /\ VideoIdle /\ CountIdle /\ SliceIdle /\ GradIdle /\ TrimIdle /\ StopsIdle /\ LayoutIdle /\ EditIdle /\ PreviewIdle /\ AnimIdle /\ SplitIdle
SpecLut == InitLut /\ [][LutNext]_vars

InitTrim ==
    /\ TrimInit /\ GifIdle /\ VideoIdle /\ CountIdle /\ SliceIdle /\ GradIdle
    /\ LutIdle /\ StopsIdle /\ LayoutIdle /\ EditIdle /\ PreviewIdle /\ AnimIdle /\ SplitIdle
SpecTrim == InitTrim /\ [][TrimNext]_vars

InitStops ==
    /\ StopsInit /\ GifIdle /\ VideoIdle /\ CountIdle /\ SliceIdle /\ GradIdle
    /\ LutIdle /\ TrimIdle /\ LayoutIdle /\ EditIdle /\ PreviewIdle /\ AnimIdle /\ SplitIdle
SpecStops == InitStops /\ [][StopsNext]_vars

InitFailures == InitSlice \/ InitTrim \/ InitGif \/ InitVideo
NextFailures == SliceNext \/ TrimNext \/ GifNext \/ VideoNext
SpecFailures == InitFailures /\ [][NextFailures]_vars

InitGrad == GradInit /\ GifIdle /\ VideoIdle /\ CountIdle /\ SliceIdle /\ LutIdle /\ TrimIdle /\ StopsIdle /\ LayoutIdle /\ EditIdle /\ PreviewIdle /\ AnimIdle /\ SplitIdle
SpecGrad == InitGrad /\ [][GradNext]_vars

InitRamp == RampInit /\ GifIdle /\ VideoIdle /\ CountIdle /\ SliceIdle /\ LutIdle /\ TrimIdle /\ StopsIdle /\ LayoutIdle /\ EditIdle /\ PreviewIdle /\ AnimIdle /\ SplitIdle
SpecRamp == InitRamp /\ [][GradNext]_vars

InitLayout ==
    /\ LayoutInit /\ GifIdle /\ VideoIdle /\ CountIdle /\ SliceIdle /\ GradIdle
    /\ LutIdle /\ TrimIdle /\ StopsIdle /\ EditIdle /\ PreviewIdle /\ AnimIdle /\ SplitIdle
SpecLayout == InitLayout /\ [][LayoutNext]_vars

InitEdit ==
    /\ EditInit /\ GifIdle /\ VideoIdle /\ CountIdle /\ SliceIdle /\ GradIdle
    /\ LutIdle /\ TrimIdle /\ StopsIdle /\ LayoutIdle /\ PreviewIdle /\ AnimIdle /\ SplitIdle
SpecEdit == InitEdit /\ [][EditNext]_vars

\* the preview and the slicer given the same settings
InitPreview ==
    /\ SliceInit /\ PreviewInit /\ GifIdle /\ VideoIdle /\ CountIdle /\ GradIdle
    /\ LutIdle /\ TrimIdle /\ StopsIdle /\ LayoutIdle /\ EditIdle /\ AnimIdle /\ SplitIdle
NextPreview == SliceNext \/ PreviewNext
SpecPreview == InitPreview /\ [][NextPreview]_vars

InitAnim ==
    /\ AnimInit /\ GifIdle /\ VideoIdle /\ CountIdle /\ SliceIdle /\ GradIdle
    /\ LutIdle /\ TrimIdle /\ StopsIdle /\ LayoutIdle /\ EditIdle /\ PreviewIdle /\ SplitIdle
SpecAnim == InitAnim /\ [][AnimNext]_vars

InitSplit ==
    /\ SplitInit /\ GifIdle /\ VideoIdle /\ CountIdle /\ SliceIdle /\ GradIdle
    /\ LutIdle /\ TrimIdle /\ StopsIdle /\ LayoutIdle /\ EditIdle /\ PreviewIdle
    /\ AnimIdle
SpecSplit == InitSplit /\ [][SplitNext]_vars

====
